---------------------------- MODULE Spec2Model ----------------------------
(***************************************************************************)
(* Clipboard question/answer watcher (qa_finder.py, qa_finder_gnome.py):   *)
(* the matcher, the socket client with its retry loop, the conversation    *)
(* sender and the watch loop.                                              *)
(*                                                                         *)
(* Text is a sequence of one-character strings, so that lower(), strip(),  *)
(* split()/join(), slicing, the `in` test and difflib's ratio are computed *)
(* on characters as Python computes them.                                  *)
(***************************************************************************)
EXTENDS Integers, Sequences, FiniteSets, TLC

(***************************************************************************)
(* Text primitives                                                         *)
(***************************************************************************)

\* str.isspace() for the characters that occur in the model's texts.
IsSpace(c) == c \in {" ", "\t", "\n"}

UpperChars == <<"A", "B", "C", "D", "E", "F", "G", "H", "I", "J", "K", "L", "M",
                "N", "O", "P", "Q", "R", "S", "T", "U", "V", "W", "X", "Y", "Z">>

LowerChars == <<"a", "b", "c", "d", "e", "f", "g", "h", "i", "j", "k", "l", "m",
                "n", "o", "p", "q", "r", "s", "t", "u", "v", "w", "x", "y", "z">>

\* The characters of the model's texts in code point order (str comparison).
\* ">" stands for U+27A4 (the answer arrow) and "#" for U+274C (the cross
\* mark), both above every letter.
CodeOrder == <<"\t", "\n", " ", ".", "0", "1", "2", "3", ":", "?">>
               \o UpperChars \o LowerChars \o <<">", "#">>

Ord(c) == CHOOSE i \in 1..Len(CodeOrder) : CodeOrder[i] = c

\* One character of str.lower().
LowerChar(c) ==
    IF \E i \in 1..Len(UpperChars) : UpperChars[i] = c
    THEN LowerChars[CHOOSE i \in 1..Len(UpperChars) : UpperChars[i] = c]
    ELSE c

\* str.lower()
Lower(s) == [i \in 1..Len(s) |-> LowerChar(s[i])]

\* str.strip(): without the leading and the trailing whitespace.
Strip(s) ==
    LET keep == {i \in 1..Len(s) : ~IsSpace(s[i])}
    IN  IF keep = {} THEN <<>>
        ELSE SubSeq(s, CHOOSE i \in keep : \A j \in keep : i <= j,
                       CHOOSE i \in keep : \A j \in keep : j <= i)

\* ' '.join(s.split()): the whitespace-separated words joined by one blank.
JoinSplit(s) ==
    LET F[i \in 0..Len(s)] ==
            IF i = 0 THEN <<>>
            ELSE LET vorher == F[i - 1]
                 IN  IF IsSpace(s[i]) THEN vorher
                     ELSE IF i > 1 /\ IsSpace(s[i - 1]) /\ vorher # <<>>
                          THEN vorher \o <<" ", s[i]>>
                          ELSE Append(vorher, s[i])
    IN  F[Len(s)]

\* a in b, for two str
IsSubstring(a, b) ==
    \E i \in 0..(Len(b) - Len(a)) : SubSeq(b, i + 1, i + Len(a)) = a

\* a < b, for two str (by code point, the shorter first on a common prefix)
StrLess(a, b) ==
    \E i \in 1..(Len(b)) :
        /\ \A j \in 1..(i - 1) : j <= Len(a) /\ a[j] = b[j]
        /\ i - 1 <= Len(a)
        /\ (i > Len(a) \/ Ord(a[i]) < Ord(b[i]))

Min(a, b) == IF a <= b THEN a ELSE b
Max(a, b) == IF a >= b THEN a ELSE b


\* The indices i of 1..n with Keep(i), ascending: one pass of a for loop that
\* appends.
CollectIdx(n, Keep(_)) ==
    LET F[i \in 0..n] ==
            IF i = 0 THEN <<>>
            ELSE IF Keep(i) THEN Append(F[i - 1], i) ELSE F[i - 1]
    IN  F[n]

(***************************************************************************)
(* Question store: lade_fragen_sicher, validiere_frage                     *)
(*                                                                         *)
(* A record of the JSON list is [isDict, hasQuestion, question, hasAnswer, *)
(* answer, hasAnswers, answers]: whether it is a dict, which of its keys   *)
(* are present, and their values (texts; answers a list of texts).         *)
(***************************************************************************)

\* validiere_frage(eintrag, index)
validiere_frage(eintrag) ==
    /\ eintrag.isDict
    /\ eintrag.hasQuestion
    /\ Len(Strip(eintrag.question)) # 0
    /\ \/ eintrag.hasAnswer /\ Len(Strip(eintrag.answer)) > 0
       \/ /\ eintrag.hasAnswers
          /\ Len(eintrag.answers) > 0
          /\ \A k \in 1..Len(eintrag.answers) : Len(Strip(eintrag.answers[k])) > 0

\* Every record counts as valid
valid_questions_alle(data) == Len(data)

\* The number of records of data that validiere_frage accepts.
valid_questions(data) == Cardinality({i \in 1..Len(data) : validiere_frage(data[i])})

\* lade_fragen_sicher returns True for every source
LadeErfolgImmer(q) == TRUE

\* lade_fragen_sicher succeeds: the file exists, is not empty, parses to a
\* non-empty list, and at least one record is valid.
LadeErfolg(quelle) ==
    /\ quelle.kind = "list"
    /\ Len(quelle.data) # 0
    /\ valid_questions(quelle.data) # 0

\* self.fragen after lade_fragen_sicher: on success the whole parsed list.
GeladeneFragen(quelle, alt) == IF LadeErfolg(quelle) THEN quelle.data ELSE alt

(***************************************************************************)
(* Matcher: normalisiere_text, finde_passende_fragen_robust                *)
(***************************************************************************)

MinSuchLaenge == 3
ScoreExakt == 100
ScoreTeilstring == 80
ScoreFuzzy == 60
FuzzyN == 3
FuzzyCutoffZehntel == 6
MaxErgebnisse == 5

\* normalisiere_text(text), for a str
\* s.replace("  ", " "): every pair of blanks, from the left, becomes one.
RECURSIVE ErsetzeDoppelte(_)
ErsetzeDoppelte(s) ==
    IF Len(s) < 2 THEN s
    ELSE IF s[1] = " " /\ s[2] = " "
         THEN <<" ">> \o ErsetzeDoppelte(SubSeq(s, 3, Len(s)))
         ELSE <<s[1]>> \o ErsetzeDoppelte(Tail(s))

\* A normalisation that replaces pairs of blanks in place of split and join.
normalisiere_ersetze(text) == ErsetzeDoppelte(Strip(Lower(text)))

normalisiere_text(text) == JoinSplit(Strip(Lower(text)))

\* eintrag.get('question', ''), for a dict
FrageVon(eintrag) == IF eintrag.hasQuestion THEN eintrag.question ELSE <<>>

\* A candidate is [e |-> index of the entry in fragen, num, den]: the entry
\* and its score num/den (ratio * 80 is a quotient of lengths).
ScoreGroesser(x, y) == x.num * y.den > y.num * x.den

\* 1. exact tier: eintrag.get raises on a record that is no dict, which the
\* loop's except skips.
ExakteSuche(fr, sn) ==
    LET idx == CollectIdx(Len(fr), LAMBDA i :
                   fr[i].isDict /\ normalisiere_text(FrageVon(fr[i])) = sn)
    IN  [k \in 1..Len(idx) |-> [e |-> idx[k], num |-> ScoreExakt, den |-> 1]]

\* `if True:` in place of `if not gefundene:`: every tier runs.
NichtsGefundenImmer(gef) == TRUE

\* `if not gefundene:` before the substring tier and before the fuzzy tier.
NichtsGefunden(gef) == gef = <<>>

\* The substring loop without `if not frage_norm: continue`.
TeilstringSucheOhneLeerTest(fr, sn) ==
    LET frage_norm == [i \in 1..Len(fr) |-> normalisiere_text(FrageVon(fr[i]))]
        idx == CollectIdx(Len(fr), LAMBDA i :
                   /\ fr[i].isDict
                   /\ (IsSubstring(sn, frage_norm[i]) \/ IsSubstring(frage_norm[i], sn)))
    IN  [k \in 1..Len(idx) |->
            [e   |-> idx[k],
             num |-> ScoreTeilstring * Min(Len(sn), Len(frage_norm[idx[k]])),
             den |-> Max(Len(sn), Len(frage_norm[idx[k]]))]]

\* 2. substring tier (the loop under `if not gefundene`).
TeilstringSuche(fr, sn) ==
    LET frage_norm == [i \in 1..Len(fr) |-> normalisiere_text(FrageVon(fr[i]))]
        idx == CollectIdx(Len(fr), LAMBDA i :
                   /\ fr[i].isDict
                   /\ frage_norm[i] # <<>>
                   /\ (IsSubstring(sn, frage_norm[i]) \/ IsSubstring(frage_norm[i], sn)))
    IN  [k \in 1..Len(idx) |->
            [e   |-> idx[k],
             num |-> ScoreTeilstring * Min(Len(sn), Len(frage_norm[idx[k]])),
             den |-> Max(Len(sn), Len(frage_norm[idx[k]]))]]

\* difflib.SequenceMatcher.find_longest_match on a[alo..ahi], b[blo..bhi]
\* (no junk): the longest common block, the earliest in a, then in b.
LongestMatch(a, b, alo, ahi, blo, bhi) ==
    LET blocks == {x \in (alo..ahi) \X (blo..bhi) \X (1..Min(ahi - alo + 1, bhi - blo + 1)) :
                      /\ x[1] + x[3] - 1 <= ahi
                      /\ x[2] + x[3] - 1 <= bhi
                      /\ \A d \in 0..(x[3] - 1) : a[x[1] + d] = b[x[2] + d]}
    IN  IF blocks = {} THEN <<alo, blo, 0>>
        ELSE CHOOSE x \in blocks : \A y \in blocks :
                 \/ x[3] > y[3]
                 \/ x[3] = y[3] /\ x[1] < y[1]
                 \/ x[3] = y[3] /\ x[1] = y[1] /\ x[2] <= y[2]

\* The total size of difflib's matching blocks: the longest block, then the
\* pieces left and right of it.
RECURSIVE MatchSize(_, _, _, _, _, _)
MatchSize(a, b, alo, ahi, blo, bhi) ==
    LET m == LongestMatch(a, b, alo, ahi, blo, bhi)
    IN  IF m[3] = 0 THEN 0
        ELSE m[3] + MatchSize(a, b, alo, m[1] - 1, blo, m[2] - 1)
                  + MatchSize(a, b, m[1] + m[3], ahi, m[2] + m[3], bhi)

\* SequenceMatcher(None, x, word).ratio() = 2 * M / T as the pair [m, t].
Ratio(x, word) == [m |-> MatchSize(x, word, 1, Len(x), 1, Len(word)),
                   t |-> Len(x) + Len(word)]

\* (score, x) > (score', x') for two of get_close_matches' result tuples.
TupelGroesser(r1, x1, r2, x2) ==
    \/ r1.m * r2.t > r2.m * r1.t
    \/ r1.m * r2.t = r2.m * r1.t /\ StrLess(x2, x1)

\* difflib.get_close_matches(word, possibilities, n, cutoff): the
\* possibilities with ratio >= cutoff, the n best, best first
\* (heapq.nlargest on the (score, x) tuples).
get_close_matches(word, possibilities, n, cutoffZehntel) ==
    LET r == [i \in 1..Len(possibilities) |-> Ratio(possibilities[i], word)]
        ok == CollectIdx(Len(possibilities), LAMBDA i :
                  2 * r[i].m * 10 >= cutoffZehntel * r[i].t)
        \* insertion of ok[k] behind every tuple that is not smaller
        Ins(sorted, i) ==
            LET before == {p \in 1..Len(sorted) :
                              ~TupelGroesser(r[i], possibilities[i],
                                             r[sorted[p]], possibilities[sorted[p]])}
                cut == IF before = {} THEN 0
                       ELSE CHOOSE p \in before : \A q \in before : q <= p
            IN  SubSeq(sorted, 1, cut) \o <<i>> \o SubSeq(sorted, cut + 1, Len(sorted))
        S[k \in 0..Len(ok)] == IF k = 0 THEN <<>> ELSE Ins(S[k - 1], ok[k])
        best == S[Len(ok)]
    IN  [k \in 1..Min(n, Len(best)) |-> possibilities[best[k]]]

\* 3. fuzzy tier (the block under `if not gefundene`): the raw questions
\* against the raw text; each match is mapped back to the first entry with
\* that question. A record that is no dict makes the comprehension raise,
\* which the tier's except swallows.
FuzzySuche(fr, suchtext) ==
    IF \E i \in 1..Len(fr) : ~fr[i].isDict THEN <<>>
    ELSE LET idx == CollectIdx(Len(fr), LAMBDA i : FrageVon(fr[i]) # <<>>)
             fragen_texte == [k \in 1..Len(idx) |-> fr[idx[k]].question]
             matches == get_close_matches(suchtext, fragen_texte, FuzzyN, FuzzyCutoffZehntel)
             erster(match) == CHOOSE i \in 1..Len(fr) :
                                  /\ fr[i].hasQuestion /\ fr[i].question = match
                                  /\ \A j \in 1..(i - 1) :
                                         ~(fr[j].hasQuestion /\ fr[j].question = match)
         IN  [k \in 1..Len(matches) |->
                 [e |-> erster(matches[k]), num |-> ScoreFuzzy, den |-> 1]]

\* gefundene.sort(key=score) and gefundene.reverse(): the best first, equal
\* scores in reversed order.
SortiereUndKehreUm(gef) ==
    LET Ins(sorted, x) ==
            LET before == {p \in 1..Len(sorted) : ScoreGroesser(sorted[p], x)}
                cut == IF before = {} THEN 0
                       ELSE CHOOSE p \in before : \A q \in before : q <= p
            IN  SubSeq(sorted, 1, cut) \o <<x>> \o SubSeq(sorted, cut + 1, Len(sorted))
        S[k \in 0..Len(gef)] == IF k = 0 THEN <<>> ELSE Ins(S[k - 1], gef[k])
    IN  S[Len(gef)]

\* gefundene.sort(key=score, reverse=True): stable, the best first.
SortiereAbsteigend(gef) ==
    LET Ins(sorted, x) ==
            LET before == {p \in 1..Len(sorted) : ~ScoreGroesser(x, sorted[p])}
                cut == IF before = {} THEN 0
                       ELSE CHOOSE p \in before : \A q \in before : q <= p
            IN  SubSeq(sorted, 1, cut) \o <<x>> \o SubSeq(sorted, cut + 1, Len(sorted))
        S[k \in 0..Len(gef)] == IF k = 0 THEN <<>> ELSE Ins(S[k - 1], gef[k])
    IN  S[Len(gef)]

\* gefundene[:], the slice without its limit
BegrenzeOhneGrenze(gef) == [k \in 1..Len(gef) |-> gef[k].e]

\* gefundene[:5], the entries only
Begrenze(gef) == [k \in 1..Min(MaxErgebnisse, Len(gef)) |-> gef[k].e]

\* `if not suchtext:` alone, without the test of the stripped length
ZuKurzNurLeer(text) == text = <<>>

\* The early return: an empty text, or fewer than 3 characters after strip.
ZuKurz(suchtext) == suchtext = <<>> \/ Len(Strip(suchtext)) < MinSuchLaenge

\* finde_passende_fragen_robust(suchtext) on self.fragen = fr: the returned
\* entries (as indices into fr), the sorted candidates they were cut from,
\* the candidates in the order the tiers appended them, and which tiers the
\* call ran.  Each local of the method is bound once, in the method's order:
\* sn, gefundene after the exact loop (g1), after the substring loop (g2),
\* after the fuzzy tier (g3), and after the sort (sortiert).
finde_passende_fragen_robust(fr, suchtext) ==
    IF ZuKurz(suchtext) \/ normalisiere_text(suchtext) = <<>>
    THEN [ergebnis |-> <<>>, kandidaten |-> <<>>, erzeugt |-> <<>>, stufen |-> {}]
    ELSE CHOOSE erg \in UNION {UNION {UNION {UNION {UNION {
             {[ergebnis   |-> Begrenze(sortiert),
               kandidaten |-> sortiert,
               erzeugt    |-> g3,
               stufen     |-> {"exakt"}
                              \cup (IF NichtsGefunden(g1) THEN {"teilstring"} ELSE {})
                              \cup (IF NichtsGefunden(g2) THEN {"fuzzy"} ELSE {})]}
             : sortiert \in {SortiereAbsteigend(g3)}}
             : g3 \in {IF NichtsGefunden(g2) THEN g2 \o FuzzySuche(fr, suchtext) ELSE g2}}
             : g2 \in {IF NichtsGefunden(g1) THEN g1 \o TeilstringSuche(fr, sn) ELSE g1}}
             : g1 \in {ExakteSuche(fr, sn)}}
             : sn \in {normalisiere_text(suchtext)}} : TRUE


(***************************************************************************)
(* State                                                                   *)
(***************************************************************************)
VARIABLES
    variante,          \* "x11": qa_finder.py, "gnome": qa_finder_gnome.py
    clipboard_tool,    \* qa_finder_gnome.py: self.clipboard_tool ("-": qa_finder.py)
    quelle,            \* the content of answare.json: [kind, data]
    fragen,            \* self.fragen
    letzter_inhalt,    \* self.letzter_inhalt
    running,           \* self.running
    shutdown_event,    \* self.shutdown_event.is_set()
    connection_alive,  \* self.connection_alive
    error_count,       \* self.error_count
    pc,                \* position in monitor_clipboard_robust / sende_antworten
    aktueller_inhalt,  \* the text read from the clipboard in this iteration
    lesung,            \* how this iteration's get_clipboard_robust went: "text",
                       \* "kein_tool" (the tool is not installed), "-" (not called)
    suchtext,          \* the argument of the last finde_passende_fragen_robust
    gefundene,         \* its result: indices into fragen
    kandidaten,        \* the sorted candidates the result was cut from
    erzeugt,           \* the candidates as its tiers appended them
    stufen,            \* the tiers that call ran
    sendpc,            \* position in sende_nachricht_robust
    nachricht,         \* its argument nachricht
    max_retries,       \* its argument max_retries
    attempt,           \* its loop variable
    rueckgabe,         \* its return value
    versuche,          \* connections opened by the current call
    schlaf,            \* the sleeps of the current call, in half seconds
    letzter_ausgang,   \* the last connection attempt: "ok", "fehler", "-" (none)
    fehler_vor,        \* self.error_count when the current call was entered
    ei,                \* sende_antworten: position in gefundene
    ai,                \* sende_antworten: position in eintrag['answers'][:3]
    antwort_count,     \* sende_antworten: antwort_count
    conv_rueckgabe,    \* return value of the last sende_antworten ("-": none)
    gesendet,          \* texts passed to sende_nachricht_robust for the snippet
    clear_erg,         \* result of the CLEAR send for the snippet
    question_erg,      \* result of the QUESTION send for the snippet
    antwort_ja,        \* whether an ANSWER send for the snippet returned True
    weg,               \* "conv": sende_antworten, "nm": the no-match sends, "-"
    overlay,           \* the display process: "x11" (qa_overlay.py), "gnome"
    spc,               \* position of the receiver thread in start_server_robust
    srv_running,       \* the receiver's self.running
    server_socket,     \* the receiver's self.server_socket: "None", "offen"
                       \* (created), "lauscht" (bound and listening)
    retry_count,       \* start_server_robust: retry_count
    wartezeiten,       \* the time.sleep() calls of start_server_robust since the
                       \* server last began to listen, in seconds
    status,            \* the values emitted on connection_status from the last
                       \* emit(True) on, in order
    empfangen,         \* the <<typ, inhalt>> emitted on message_received, in order
    conn,              \* the accepted connection being handled (its number), 0: none
    angenommen,        \* connections accepted so far
    geschlossen,       \* accepted connections closed so far
    gelesen,           \* conn.recv() calls on connections so far
    recv_data,         \* what the last conn.recv() brought
    accept_fehler,     \* accept loops ended by an error
    offene_sockets,    \* server sockets created and not yet closed
    stoppc,            \* position of the thread that calls stop()
    backlog,           \* the messages of the connections that are established
                       \* with the listening socket and not yet accepted, oldest
                       \* first
    eingang            \* the message the accepted connection carries (<<>>: none)

finderVars  == <<variante, clipboard_tool, quelle, fragen, letzter_inhalt, running,
                 shutdown_event, pc, aktueller_inhalt, lesung>>
healthVars  == <<connection_alive, error_count>>
matchVars   == <<suchtext, gefundene, kandidaten, erzeugt, stufen>>
sendVars    == <<sendpc, nachricht, max_retries, attempt, rueckgabe, versuche, schlaf,
                 letzter_ausgang, fehler_vor>>
convVars    == <<ei, ai, antwort_count, conv_rueckgabe, gesendet, clear_erg, question_erg,
                 antwort_ja, weg>>
serverVars  == <<overlay, spc, srv_running, server_socket, retry_count, wartezeiten,
                 status, empfangen, conn, angenommen, geschlossen, gelesen, recv_data,
                 accept_fehler, offene_sockets, stoppc, backlog, eingang>>
netzVars    == <<backlog, eingang>>
vars == <<finderVars, healthVars, matchVars, sendVars, convVars, serverVars>>

\* RobustQAFinder.__init__ / GnomeQAFinder.__init__
InitFinder ==
    /\ fragen = <<>>
    /\ letzter_inhalt = <<>>
    /\ running = TRUE
    /\ shutdown_event = FALSE
    /\ connection_alive = FALSE
    /\ error_count = 0

\* self.clipboard_tool after __init__: qa_finder.py has no such attribute;
\* in qa_finder_gnome.py get_optimal_clipboard_tool() returns None when
\* `which` finds no tool, else the first tool found: a tool that prints the
\* clipboard ("xclip" stands for xclip, wl-paste and xsel, which are read
\* alike), or "wl-copy", the first choice for GNOME on Wayland.
Werkzeuge(var) == IF var = "x11" THEN {"-"} ELSE {"None", "xclip", "wl-copy"}

\* No call of finde_passende_fragen_robust has been made.
InitMatch ==
    /\ suchtext = <<>>
    /\ gefundene = <<>>
    /\ kandidaten = <<>>
    /\ erzeugt = <<>>
    /\ stufen = {}

\* No call of sende_nachricht_robust is in progress.
InitSend ==
    /\ sendpc = "idle"
    /\ nachricht = <<>>
    /\ max_retries = 0
    /\ attempt = 0
    /\ rueckgabe = FALSE
    /\ versuche = 0
    /\ schlaf = <<>>
    /\ letzter_ausgang = "-"
    /\ fehler_vor = 0

\* RobustMessageReceiver.__init__ / GnomeMessageReceiver.__init__: the
\* receiver thread is not started ("ruhe").
InitReceiver ==
    /\ spc = "ruhe"
    /\ srv_running = TRUE
    /\ server_socket = "None"
    /\ retry_count = 0
    /\ wartezeiten = <<>>
    /\ status = <<>>
    /\ empfangen = <<>>
    /\ conn = 0
    /\ angenommen = 0
    /\ geschlossen = 0
    /\ gelesen = 0
    /\ recv_data = [art |-> "-", daten |-> <<>>]
    /\ accept_fehler = 0
    /\ offene_sockets = 0
    /\ stoppc = "-"
    /\ backlog = <<>>
    /\ eingang = <<>>

\* No call of sende_antworten has been made.
InitConv ==
    /\ ei = 0
    /\ ai = 0
    /\ antwort_count = 0
    /\ conv_rueckgabe = "-"
    /\ gesendet = <<>>
    /\ clear_erg = "-"
    /\ question_erg = "-"
    /\ antwort_ja = FALSE
    /\ weg = "-"

(***************************************************************************)
(* The matcher on its own: finde_passende_fragen_robust applied to a       *)
(* loaded corpus and a text.                                               *)
(***************************************************************************)

T_abc  == <<"a", "b", "c">>
T_ABC_ == <<"A", "B", "C", " ">>
T_abcd == <<"a", "b", "c", "d">>
T_abd  == <<"a", "b", "d">>
T_1    == <<"1">>

Dict(q, a)      == [isDict |-> TRUE, hasQuestion |-> TRUE, question |-> q,
                    hasAnswer |-> TRUE, answer |-> a,
                    hasAnswers |-> FALSE, answers |-> <<>>]
DictMulti(q, l) == [isDict |-> TRUE, hasQuestion |-> TRUE, question |-> q,
                    hasAnswer |-> FALSE, answer |-> <<>>,
                    hasAnswers |-> TRUE, answers |-> l]
\* A record of the list that is no dict (a JSON string, number or list).
KeinDict        == [isDict |-> FALSE, hasQuestion |-> FALSE, question |-> <<>>,
                    hasAnswer |-> FALSE, answer |-> <<>>,
                    hasAnswers |-> FALSE, answers |-> <<>>]

\* The records the matcher's corpora are made of.
MatchEintraege == {Dict(T_abc, T_1), DictMulti(T_ABC_, <<T_1>>), Dict(T_abcd, T_1),
                   Dict(T_abd, T_1), Dict(<<" ">>, T_1), KeinDict}

\* The texts the matcher is asked about.
MatchTexte == {<<" ", "A", "B", "C">>, <<"a", "b", "e">>, <<"a", "b", "c", "d", "e">>,
               <<"a", "b">>, <<"a", "b", " ">>, <<>>}

MaxKorpus == 2
MaxWiederholung == 4

RECURSIVE SeqsBis(_, _)
\* The sequences over S of length at most n.
SeqsBis(S, n) ==
    IF n = 0 THEN {<<>>}
    ELSE LET kurz == SeqsBis(S, n - 1)
         IN  kurz \cup {Append(s, x) : s \in {t \in kurz : Len(t) = n - 1}, x \in S}

\* The corpora: up to MaxKorpus records, then up to MaxWiederholung more
\* copies of one record.
MatchKorpora ==
    {k \o [i \in 1..w |-> e] : k \in SeqsBis(MatchEintraege, MaxKorpus),
                               e \in MatchEintraege, w \in 0..MaxWiederholung}

\* The matcher runs only on a corpus that lade_fragen_sicher accepted.
MatchInit ==
    /\ variante \in {"x11", "gnome"}
    /\ clipboard_tool = (IF variante = "x11" THEN "-" ELSE "xclip")
    /\ quelle \in {[kind |-> "list", data |-> k] : k \in MatchKorpora}
    /\ LadeErfolg(quelle)
    /\ InitFinder /\ InitMatch /\ InitSend /\ InitConv
    /\ overlay = "x11" /\ InitReceiver
    /\ pc = "suche"
    /\ aktueller_inhalt \in MatchTexte
    /\ lesung = "text"

\* self.fragen = data, then finde_passende_fragen_robust(aktueller_inhalt)
Suche ==
    /\ pc = "suche"
    /\ \E erg \in {finde_passende_fragen_robust(quelle.data, aktueller_inhalt)} :
           /\ fragen' = quelle.data
           /\ suchtext' = aktueller_inhalt
           /\ gefundene' = erg.ergebnis
           /\ kandidaten' = erg.kandidaten
           /\ erzeugt' = erg.erzeugt
           /\ stufen' = erg.stufen
    /\ pc' = "gesucht"
    /\ UNCHANGED <<serverVars, variante, clipboard_tool, quelle, letzter_inhalt, running, shutdown_event,
                   aktueller_inhalt, lesung, healthVars, sendVars, convVars>>

MatchNext == Suche

MatchSpec == MatchInit /\ [][MatchNext]_vars


(***************************************************************************)
(* Transport client: sende_nachricht_robust                                *)
(*                                                                         *)
(* sendpc: "idle" (no call), "entry" (called), "connect" (at the top of    *)
(* the try of one attempt), "backoff" (at time.sleep), "ret" (returned,    *)
(* rueckgabe is the return value).                                         *)
(***************************************************************************)

DefaultMaxRetries == 3

\* What one connection attempt can end with: connect and sendall went
\* through, socket.timeout, ConnectionRefusedError, any other exception.
Ausgaenge == {"ok", "timeout", "refused", "error"}

\* A caller calls sende_nachricht_robust(msg, n).
SendeAufruf(msg, n) ==
    /\ sendpc' = "entry"
    /\ nachricht' = msg
    /\ max_retries' = n
    /\ attempt' = 0
    /\ rueckgabe' = FALSE
    /\ versuche' = 0
    /\ schlaf' = <<>>
    /\ letzter_ausgang' = "-"
    /\ fehler_vor' = error_count

\* The caller has taken the return value: the call's frame is gone.
SendeFertig ==
    /\ sendpc' = "idle"
    /\ nachricht' = <<>>
    /\ max_retries' = 0
    /\ attempt' = 0
    /\ rueckgabe' = FALSE
    /\ versuche' = 0
    /\ schlaf' = <<>>
    /\ letzter_ausgang' = "-"
    /\ fehler_vor' = 0

\* self.error_count without the reset of a successful attempt
ErfolgFehlerzahlOhneReset(ec) == ec

\* self.error_count = 0 after a successful attempt
ErfolgFehlerzahl(ec) == 0

\* self.error_count += 1 once per failed attempt of the call
ErschoepftFehlerzahlProVersuch(ec, n) == ec + n

\* self.error_count += 1 after the loop
ErschoepftFehlerzahl(ec, n) == ec + 1

\* `if attempt < max_retries:` in place of the code's test
WeitererVersuchEinsMehr(att, n) == att < n

\* `if attempt < max_retries - 1:` another attempt follows this one
WeitererVersuch(att, n) == att < n - 1

\* time.sleep(0.5 * (attempt + 1)), in half seconds
SchlafHalbeSekunden(att) == att + 1

\* Entering the function: `if not nachricht: return False`, then the for
\* loop, whose body does not run for max_retries <= 0.
SendeEintritt ==
    /\ sendpc = "entry"
    /\ IF nachricht = <<>>
       THEN /\ sendpc' = "ret"
            /\ UNCHANGED healthVars
       ELSE IF max_retries <= 0
       THEN /\ sendpc' = "ret"
            /\ error_count' = ErschoepftFehlerzahl(error_count, max_retries)
            /\ connection_alive' = FALSE
       ELSE /\ sendpc' = "connect"
            /\ UNCHANGED healthVars
    /\ UNCHANGED <<nachricht, max_retries, attempt, rueckgabe, versuche, schlaf,
                   letzter_ausgang, fehler_vor>>
    /\ UNCHANGED <<serverVars, finderVars, matchVars, convVars>>

\* One pass of the try: a fresh socket, connect, sendall. A success returns
\* True; the last failure falls out of the loop and returns False.
Verbindungsversuch ==
    /\ sendpc = "connect"
    /\ \E ausgang \in Ausgaenge :
        /\ letzter_ausgang' = (IF ausgang = "ok" THEN "ok" ELSE "fehler")
        /\ versuche' = versuche + 1
        /\ IF ausgang = "ok"
           THEN /\ connection_alive' = TRUE
                /\ error_count' = ErfolgFehlerzahl(error_count)
                /\ rueckgabe' = TRUE
                /\ sendpc' = "ret"
           ELSE IF WeitererVersuch(attempt, max_retries)
           THEN /\ connection_alive' = IF ausgang = "refused" THEN FALSE
                                       ELSE connection_alive
                /\ sendpc' = "backoff"
                /\ UNCHANGED <<error_count, rueckgabe>>
           ELSE /\ error_count' = ErschoepftFehlerzahl(error_count, max_retries)
                /\ connection_alive' = FALSE
                /\ rueckgabe' = FALSE
                /\ sendpc' = "ret"
    /\ UNCHANGED <<nachricht, max_retries, attempt, schlaf, fehler_vor>>
    /\ UNCHANGED <<serverVars, finderVars, matchVars, convVars>>

\* time.sleep between two attempts, then the next pass of the loop.
Backoff ==
    /\ sendpc = "backoff"
    /\ schlaf' = Append(schlaf, SchlafHalbeSekunden(attempt))
    /\ attempt' = attempt + 1
    /\ sendpc' = "connect"
    /\ UNCHANGED <<nachricht, max_retries, rueckgabe, versuche, letzter_ausgang, fehler_vor>>
    /\ UNCHANGED <<serverVars, finderVars, healthVars, matchVars, convVars>>

(***************************************************************************)
(* sende_nachricht_robust on its own: one call with any message, any       *)
(* max_retries and any connection health before it.                        *)
(***************************************************************************)

T_CLEAR == <<"C", "L", "E", "A", "R">>

MaxRetriesGrenze == 4
MaxFehlerStart == 3

SendInit ==
    /\ variante \in {"x11", "gnome"}
    /\ clipboard_tool = (IF variante = "x11" THEN "-" ELSE "xclip")
    /\ quelle = [kind |-> "list", data |-> <<>>]
    /\ fragen = <<>>
    /\ letzter_inhalt = <<>>
    /\ running = TRUE
    /\ shutdown_event = FALSE
    /\ connection_alive \in BOOLEAN
    /\ error_count \in 0..MaxFehlerStart
    /\ pc = "senden"
    /\ aktueller_inhalt = <<>>
    /\ lesung = "-"
    /\ InitMatch /\ InitConv
    /\ overlay = "x11" /\ InitReceiver
    /\ sendpc = "entry"
    /\ nachricht \in {T_CLEAR, <<>>}
    /\ max_retries \in 0..MaxRetriesGrenze
    /\ attempt = 0
    /\ rueckgabe = FALSE
    /\ versuche = 0
    /\ schlaf = <<>>
    /\ letzter_ausgang = "-"
    /\ fehler_vor = error_count

SendNext == SendeEintritt \/ Verbindungsversuch \/ Backoff

SendSpec == SendInit /\ [][SendNext]_vars

(***************************************************************************)
(* Conversation and watch loop: sende_antworten, monitor_clipboard_robust  *)
(*                                                                         *)
(* pc: "start" (monitor_clipboard_robust entered), "schleife" (the while   *)
(* test), "pruefen" (the periodic connection check), "breaker" (the error  *)
(* threshold), "pause" (the 30 s wait), "lesen" (get_clipboard_robust),    *)
(* "verarbeiten" (the new-text test), "conv_clear", "conv_question",       *)
(* "conv_antwort" (inside the send of that message of sende_antworten),    *)
(* "conv_schleife" (the for loop over gefundene), "nm_clear",              *)
(* "nm_question", "nm_answer" (inside that send of the no-match branch),   *)
(* "werkzeug" (the clipboard_tool test of qa_finder_gnome.py),             *)
(* "fehlerpause" (the wait of the loop's `except Exception`),              *)
(* "warten" (the wait at the end of an iteration), "zurueck" (the function *)
(* returned), "ende" (after the finally of __main__).                      *)
(***************************************************************************)

max_errors == 10
FrageMaxLaenge == 80
MaxAntwortenProEintrag == 3
MinFrageLaenge == 8

T_QUESTION_ == <<"Q", "U", "E", "S", "T", "I", "O", "N", ":">>
T_ANSWER_   == <<"A", "N", "S", "W", "E", "R", ":">>
T_PFEIL_    == <<">", " ">>
T_PUNKTE    == <<".", ".", ".">>
T_NeueFrage == <<"N", "e", "u", "e", " ", "F", "r", "a", "g", "e">>
T_Keine     == <<"#", " ", "K", "e", "i", "n", "e", " ", "A", "n", "t", "w", "o", "r", "t",
                 " ", "g", "e", "f", "u", "n", "d", "e", "n">>
T_Kreuz     == <<"#">>

\* frage[:80] + "..." if len(frage) > 80 else frage
frage_kurz(frage) ==
    IF Len(frage) > FrageMaxLaenge THEN SubSeq(frage, 1, FrageMaxLaenge) \o T_PUNKTE
    ELSE frage

\* f"QUESTION:{frage_kurz}"
QuestionNachricht(frage) == T_QUESTION_ \o frage_kurz(frage)

\* f"ANSWER:(arrow) {antwort}"
AnswerNachricht(antwort) == T_ANSWER_ \o T_PFEIL_ \o antwort

\* The no-match branch: its QUESTION (qa_finder.py only) and its ANSWER.
KeineFrageNachricht == T_QUESTION_ \o T_NeueFrage
KeineAntwortNachricht(var) ==
    IF var = "x11" THEN T_ANSWER_ \o T_Keine ELSE T_ANSWER_ \o T_Kreuz

\* Texts of the watcher's corpus and clipboard.
T_frage_aa == <<"f", "r", "a", "g", "e", " ", "a", "a">>
T_frage_bb == <<"f", "r", "a", "g", "e", "n", " ", "b", "b", "b">>
T_Frage_AA == <<"F", "r", "a", "g", "e", " ", "A", "A">>
T_zzz      == <<"z", "z", "z", "z", "z", "z", "z", "z">>
T_kurz     == <<"k", "u", "r", "z">>
T_neu      == <<"n", "e", "u">>

\* A dict with both keys, and one with a question only.
DictBeide(q, a, l) == [isDict |-> TRUE, hasQuestion |-> TRUE, question |-> q,
                       hasAnswer |-> TRUE, answer |-> a,
                       hasAnswers |-> TRUE, answers |-> l]
DictOhne(q)        == [isDict |-> TRUE, hasQuestion |-> TRUE, question |-> q,
                       hasAnswer |-> FALSE, answer |-> <<>>,
                       hasAnswers |-> FALSE, answers |-> <<>>]

\* answare.json with records of every answer shape.
K_gemischt ==
    <<Dict(T_frage_aa, <<"a", "1">>),
      DictMulti(T_frage_aa, <<<<"b", "1">>, <<"b", "2">>, <<"b", "3">>, <<"b", "4">>>>),
      DictBeide(T_frage_aa, <<"c", "1">>, <<<<"c", "2">>>>),
      DictOhne(T_frage_aa)>>

\* answare.json whose only record matching the clipboard has no answer.
K_ohne == <<Dict(T_frage_bb, <<"x">>), DictOhne(T_frage_aa)>>

\* answare.json with five records of three or four answers each for one
\* question.
K_gross ==
    <<DictMulti(T_frage_aa, <<<<"d", "1">>, <<"d", "2">>, <<"d", "3">>>>),
      DictMulti(T_frage_aa, <<<<"e", "1">>, <<"e", "2">>, <<"e", "3">>>>),
      DictMulti(T_frage_aa, <<<<"f", "1">>, <<"f", "2">>, <<"f", "3">>>>),
      DictMulti(T_frage_aa, <<<<"g", "1">>, <<"g", "2">>, <<"g", "3">>>>),
      DictMulti(T_frage_aa, <<<<"h", "1">>, <<"h", "2">>, <<"h", "3">>, <<"h", "4">>>>)>>

\* What answare.json can be: missing, of size 0 ("leer"), not JSON
\* ("invalid"), JSON that is no list ("kein_list"), an empty list, a list.
Quellen ==
    {[kind |-> "missing", data |-> <<>>], [kind |-> "invalid", data |-> <<>>],
     [kind |-> "leer", data |-> <<>>], [kind |-> "kein_list", data |-> <<>>],
     [kind |-> "list", data |-> <<>>], [kind |-> "list", data |-> <<DictOhne(T_frage_aa)>>],
     [kind |-> "list", data |-> K_gemischt], [kind |-> "list", data |-> K_ohne],
     [kind |-> "list", data |-> K_gross]}

\* What the clipboard tool can print (get_clipboard_robust strips it).
Zwischenablage == {<<>>, T_kurz, T_neu, T_Frage_AA, T_zzz}

Init ==
    /\ variante \in {"x11", "gnome"}
    /\ clipboard_tool \in Werkzeuge(variante)
    /\ quelle \in Quellen
    /\ InitFinder /\ InitMatch /\ InitSend /\ InitConv
    /\ overlay = "x11" /\ InitReceiver
    /\ pc = "start"
    /\ aktueller_inhalt = <<>>
    /\ lesung = "-"

\* monitor_clipboard_robust: lade_fragen_sicher('answare.json'), and the
\* return when it fails. qa_finder_gnome.py then tests self.clipboard_tool.
Laden ==
    /\ pc = "start"
    /\ fragen' = GeladeneFragen(quelle, fragen)
    /\ pc' = IF ~LadeErfolg(quelle) THEN "zurueck"
             ELSE IF variante = "gnome" THEN "werkzeug" ELSE "schleife"
    /\ UNCHANGED <<serverVars, variante, clipboard_tool, quelle, letzter_inhalt, running, shutdown_event,
                   aktueller_inhalt, lesung, healthVars, matchVars, sendVars, convVars>>

\* qa_finder_gnome.py: `if not self.clipboard_tool: return`
WerkzeugPruefung ==
    /\ pc = "werkzeug"
    /\ pc' = IF clipboard_tool = "None" THEN "zurueck" ELSE "schleife"
    /\ UNCHANGED <<serverVars, variante, clipboard_tool, quelle, fragen, letzter_inhalt, running,
                   shutdown_event, aktueller_inhalt, lesung, healthVars, matchVars,
                   sendVars, convVars>>

\* `while True:` in place of the code's test
SchleifeLaeuftImmer(run, ev) == TRUE

\* while self.running and not self.shutdown_event.is_set()
SchleifeLaeuft(run, ev) == run /\ ~ev

SchleifenKopf ==
    /\ pc = "schleife"
    /\ pc' = IF SchleifeLaeuft(running, shutdown_event) THEN "pruefen" ELSE "zurueck"
    /\ UNCHANGED <<serverVars, variante, clipboard_tool, quelle, fragen, letzter_inhalt, running, shutdown_event,
                   aktueller_inhalt, lesung, healthVars, matchVars, sendVars, convVars>>

\* The periodic check: when 10 s have passed, test_connection(), which sets
\* connection_alive and nothing else.
\* A probe that counts its failure like a failed send.
test_connection_zaehlt(ec, ausgang) == IF ausgang = "fehler" THEN ec + 1 ELSE ec

\* test_connection: self.error_count after the call (no statement of the
\* function assigns it).
test_connection_error_count(ec, ausgang) == ec

\* test_connection: self.connection_alive after the call, True after
\* sendall, False in the except clause. Its return value is the same.
test_connection_alive(ausgang) == ausgang = "ok"

VerbindungsPruefung ==
    /\ pc = "pruefen"
    /\ \E faellig \in {"nein", "ok", "fehler"} :
        IF faellig = "nein"
        THEN UNCHANGED <<connection_alive, error_count>>
        ELSE /\ connection_alive' = test_connection_alive(faellig)
             /\ error_count' = test_connection_error_count(error_count, faellig)
    /\ pc' = "breaker"
    /\ UNCHANGED <<serverVars, variante, clipboard_tool, quelle, fragen, letzter_inhalt, running, shutdown_event,
                   aktueller_inhalt, lesung, matchVars, sendVars, convVars>>

\* if self.error_count >= self.max_errors
ZuVieleFehler(ec) == ec >= max_errors

FehlerPruefung ==
    /\ pc = "breaker"
    /\ pc' = IF ZuVieleFehler(error_count) THEN "pause" ELSE "lesen"
    /\ UNCHANGED <<serverVars, variante, clipboard_tool, quelle, fragen, letzter_inhalt, running, shutdown_event,
                   aktueller_inhalt, lesung, healthVars, matchVars, sendVars, convVars>>

\* self.error_count left as it is after the pause
PauseFehlerzahlBleibt(ec) == ec

\* `self.error_count = 0` after the pause
PauseFehlerzahl(ec) == 0

\* self.shutdown_event.wait(30) timed out: error_count = 0, continue
PauseAbgelaufen ==
    /\ pc = "pause"
    /\ ~shutdown_event
    /\ error_count' = PauseFehlerzahl(error_count)
    /\ pc' = "schleife"
    /\ UNCHANGED <<serverVars, variante, clipboard_tool, quelle, fragen, letzter_inhalt, running, shutdown_event,
                   aktueller_inhalt, lesung, connection_alive, matchVars, sendVars, convVars>>

\* self.shutdown_event.wait(30) returned True: break
PauseAbbruch ==
    /\ pc = "pause"
    /\ shutdown_event
    /\ pc' = "zurueck"
    /\ UNCHANGED <<serverVars, variante, clipboard_tool, quelle, fragen, letzter_inhalt, running, shutdown_event,
                   aktueller_inhalt, lesung, healthVars, matchVars, sendVars, convVars>>

\* get_clipboard_robust() returns None: in qa_finder.py on the
\* FileNotFoundError of a missing xclip; in qa_finder_gnome.py never (the
\* per-tool readers catch FileNotFoundError and return "").
LeseErgebnisNone(var, ausgang) == var = "x11" /\ ausgang = "kein_tool"

\* aktueller_inhalt = self.get_clipboard_robust(), and the break on None.
\* The tool prints a text, which is stripped; a failing tool gives ""; the
\* tool may be missing when it is run; "wl-copy" is never run and gives "".
Lesen ==
    /\ pc = "lesen"
    /\ \E inhalt \in Zwischenablage, ausgang \in {"text", "kein_tool"} :
        /\ ausgang = "kein_tool" => inhalt = <<>>
        /\ clipboard_tool = "wl-copy" => inhalt = <<>> /\ ausgang = "text"
        /\ aktueller_inhalt' = inhalt
        /\ lesung' = ausgang
        /\ pc' = IF LeseErgebnisNone(variante, ausgang) THEN "zurueck" ELSE "verarbeiten"
    /\ UNCHANGED <<serverVars, variante, clipboard_tool, quelle, fragen, letzter_inhalt, running,
                   shutdown_event, healthVars, matchVars, sendVars, convVars>>

\* The iteration is over: its locals (the text read, the search result, the
\* conversation's counters and what was recorded of it) are dead.
IterationsEnde ==
    /\ aktueller_inhalt' = <<>> /\ lesung' = "-"
    /\ suchtext' = <<>> /\ gefundene' = <<>> /\ kandidaten' = <<>> /\ erzeugt' = <<>>
    /\ stufen' = {}
    /\ ei' = 0 /\ ai' = 0 /\ antwort_count' = 0
    /\ conv_rueckgabe' = "-" /\ gesendet' = <<>>
    /\ clear_erg' = "-" /\ question_erg' = "-" /\ antwort_ja' = FALSE /\ weg' = "-"

\* error_count left as it is by the handler
HandlerFehlerzahlBleibt(ec) == ec

\* `self.error_count += 1` of the handler
HandlerFehlerzahl(ec) == ec + 1

\* Where in the try block of an iteration a statement outside every inner
\* handler raises: at the clipboard read, and at the tests and the logging
\* between the read and the search.
FehlerStellen == {"lesen", "verarbeiten"}

\* `except Exception` of the loop: an exception that no inner handler caught.
\* error_count += 1; the iteration's locals are dead.
UnerwarteterFehler ==
    /\ pc \in FehlerStellen
    /\ error_count' = HandlerFehlerzahl(error_count)
    /\ pc' = "fehlerpause"
    /\ IterationsEnde
    /\ UNCHANGED <<serverVars, variante, clipboard_tool, quelle, fragen, letzter_inhalt, running,
                   shutdown_event, connection_alive, sendVars>>

\* `if self.shutdown_event.wait(1): break` of the handler
FehlerPause ==
    /\ pc = "fehlerpause"
    /\ pc' = IF shutdown_event THEN "zurueck" ELSE "schleife"
    /\ UNCHANGED <<serverVars, variante, clipboard_tool, quelle, fragen, letzter_inhalt, running,
                   shutdown_event, aktueller_inhalt, lesung, healthVars, matchVars,
                   sendVars, convVars>>

\* Any non-empty text counts as new
NeuerInhaltImmer(akt, letzt) == akt # <<>>

\* if aktueller_inhalt and aktueller_inhalt != self.letzter_inhalt
NeuerInhalt(akt, letzt) == akt # <<>> /\ akt # letzt

\* No text is too short
ZuKurzeFrageNie(inhalt) == FALSE

\* if len(aktueller_inhalt.strip()) < 8
ZuKurzeFrage(inhalt) == Len(Strip(inhalt)) < MinFrageLaenge

\* self.letzter_inhalt is left as it was
GesehenerInhaltUnveraendert(alt, neu) == alt

\* self.letzter_inhalt = aktueller_inhalt after the send branches
GesehenerInhalt(alt, neu) == neu

\* The test of the new text, the search, and the first send of the branch
\* taken.
Verarbeiten ==
    /\ pc = "verarbeiten"
    /\ IF ~NeuerInhalt(aktueller_inhalt, letzter_inhalt)
       THEN /\ pc' = "warten"
            /\ UNCHANGED <<letzter_inhalt, aktueller_inhalt, lesung, matchVars, sendVars, convVars>>
       ELSE IF ZuKurzeFrage(aktueller_inhalt)
       THEN /\ letzter_inhalt' = aktueller_inhalt
            /\ pc' = "schleife"
            /\ aktueller_inhalt' = <<>> /\ lesung' = "-"
            /\ UNCHANGED <<matchVars, sendVars, convVars>>
       ELSE \E erg \in {finde_passende_fragen_robust(fragen, aktueller_inhalt)} :
            /\ suchtext' = aktueller_inhalt
            /\ gefundene' = erg.ergebnis
            /\ kandidaten' = erg.kandidaten
            /\ erzeugt' = erg.erzeugt
            /\ stufen' = erg.stufen
            /\ pc' = IF erg.ergebnis # <<>> THEN "conv_clear" ELSE "nm_clear"
            /\ weg' = IF erg.ergebnis # <<>> THEN "conv" ELSE "nm"
            /\ SendeAufruf(T_CLEAR, DefaultMaxRetries)
            /\ gesendet' = <<T_CLEAR>>
            /\ ei' = 0 /\ ai' = 0 /\ antwort_count' = 0
            /\ conv_rueckgabe' = "-"
            /\ clear_erg' = "-" /\ question_erg' = "-" /\ antwort_ja' = FALSE
            /\ UNCHANGED <<letzter_inhalt, aktueller_inhalt, lesung>>
    /\ UNCHANGED <<serverVars, variante, clipboard_tool, quelle, fragen, running, shutdown_event, healthVars>>

\* sende_antworten returns ret; the loop logs it, records the text as seen
\* and goes to its wait.
ConvEnde(ret) ==
    /\ conv_rueckgabe' = (IF ret THEN "True" ELSE "False")
    /\ letzter_inhalt' = GesehenerInhalt(letzter_inhalt, aktueller_inhalt)
    /\ pc' = "warten"
    /\ SendeFertig

Erg(b) == IF b THEN "True" ELSE "False"

\* The CLEAR send's result is dropped.
ClearAbbruchNie(ok) == FALSE

\* if not self.sende_nachricht_robust("CLEAR"): return False
ClearAbbruch(ok) == ~ok

\* The return of the CLEAR send; then time.sleep(0.1) and the QUESTION send.
ConvClearRet ==
    /\ pc = "conv_clear" /\ sendpc = "ret"
    /\ clear_erg' = Erg(rueckgabe)
    /\ IF ClearAbbruch(rueckgabe)
       THEN /\ ConvEnde(FALSE)
            /\ UNCHANGED gesendet
       ELSE /\ SendeAufruf(QuestionNachricht(aktueller_inhalt), DefaultMaxRetries)
            /\ gesendet' = Append(gesendet, QuestionNachricht(aktueller_inhalt))
            /\ pc' = "conv_question"
            /\ UNCHANGED <<letzter_inhalt, conv_rueckgabe>>
    /\ UNCHANGED <<serverVars, variante, clipboard_tool, quelle, fragen, running, shutdown_event, aktueller_inhalt, lesung,
                   healthVars, matchVars, ei, ai, antwort_count, question_erg, antwort_ja, weg>>

\* No variant returns on a failed QUESTION send.
FrageAbbruchNie(var, ok) == FALSE

\* qa_finder.py: `if not self.sende_nachricht_robust(QUESTION): return False`;
\* qa_finder_gnome.py calls it and drops the result.
FrageAbbruch(var, ok) == var = "x11" /\ ~ok

\* The return of the QUESTION send.
ConvQuestionRet ==
    /\ pc = "conv_question" /\ sendpc = "ret"
    /\ question_erg' = Erg(rueckgabe)
    /\ IF FrageAbbruch(variante, rueckgabe)
       THEN /\ ConvEnde(FALSE)
            /\ UNCHANGED <<ei, ai>>
       ELSE /\ ei' = 1 /\ ai' = 1
            /\ pc' = "conv_schleife"
            /\ SendeFertig
            /\ UNCHANGED <<letzter_inhalt, conv_rueckgabe>>
    /\ UNCHANGED <<serverVars, variante, clipboard_tool, quelle, fragen, running, shutdown_event, aktueller_inhalt, lesung,
                   healthVars, matchVars, antwort_count, gesendet, clear_erg, antwort_ja, weg>>

\* return antwort_count >= 0
ConvErgebnisImmer(count) == count >= 0

\* return antwort_count > 0
ConvErgebnis(count) == count > 0

\* eintrag['answers'] without the slice
ErsteAntwortenAlle(eintrag) == eintrag.answers

\* eintrag['answers'][:3]
ErsteAntworten(eintrag) ==
    SubSeq(eintrag.answers, 1, Min(MaxAntwortenProEintrag, Len(eintrag.answers)))

\* for eintrag in gefundene: the next ANSWER send, the next entry, or the
\* end of the loop and the return.
ConvSchleife ==
    /\ pc = "conv_schleife"
    /\ IF ei > Len(gefundene)
       THEN /\ ConvEnde(ConvErgebnis(antwort_count))
            /\ UNCHANGED <<ei, ai, gesendet>>
       ELSE LET eintrag == fragen[gefundene[ei]]
                text == IF eintrag.hasAnswer THEN eintrag.answer
                        ELSE ErsteAntworten(eintrag)[ai]
            IN  IF eintrag.hasAnswer \/ (eintrag.hasAnswers /\ ai <= Len(ErsteAntworten(eintrag)))
                THEN /\ SendeAufruf(AnswerNachricht(text), DefaultMaxRetries)
                     /\ gesendet' = Append(gesendet, AnswerNachricht(text))
                     /\ pc' = "conv_antwort"
                     /\ UNCHANGED <<ei, ai, letzter_inhalt, conv_rueckgabe>>
                ELSE /\ ei' = ei + 1 /\ ai' = 1
                     /\ UNCHANGED <<pc, sendVars, gesendet, letzter_inhalt, conv_rueckgabe>>
    /\ UNCHANGED <<serverVars, variante, clipboard_tool, quelle, fragen, running, shutdown_event, aktueller_inhalt, lesung,
                   healthVars, matchVars, antwort_count, clear_erg, question_erg, antwort_ja,
                   weg>>

\* antwort_count += 1 whatever the send returned
AntwortZaehlerImmer(count, ok) == count + 1

\* `if self.sende_nachricht_robust(ANSWER): antwort_count += 1`
AntwortZaehler(count, ok) == IF ok THEN count + 1 ELSE count

\* The return of an ANSWER send: antwort_count += 1 on True; then the next
\* answer of the entry, or the next entry.
ConvAntwortRet ==
    /\ pc = "conv_antwort" /\ sendpc = "ret"
    /\ antwort_count' = AntwortZaehler(antwort_count, rueckgabe)
    /\ antwort_ja' = (antwort_ja \/ rueckgabe)
    /\ IF fragen[gefundene[ei]].hasAnswer
       THEN ei' = ei + 1 /\ ai' = 1
       ELSE ei' = ei /\ ai' = ai + 1
    /\ pc' = "conv_schleife"
    /\ SendeFertig
    /\ UNCHANGED <<serverVars, variante, clipboard_tool, quelle, fragen, letzter_inhalt, running, shutdown_event,
                   aktueller_inhalt, lesung, healthVars, matchVars, conv_rueckgabe, gesendet,
                   clear_erg, question_erg, weg>>

\* The no-match branch is left: the text is recorded as seen.
KeineEnde ==
    /\ letzter_inhalt' = GesehenerInhalt(letzter_inhalt, aktueller_inhalt)
    /\ pc' = "warten"
    /\ SendeFertig

\* if self.sende_nachricht_robust("CLEAR"): the next send of the branch,
\* QUESTION in qa_finder.py, ANSWER in qa_finder_gnome.py.
KeineClearRet ==
    /\ pc = "nm_clear" /\ sendpc = "ret"
    /\ clear_erg' = Erg(rueckgabe)
    /\ IF ~rueckgabe
       THEN /\ KeineEnde
            /\ UNCHANGED gesendet
       ELSE LET msg == IF variante = "x11" THEN KeineFrageNachricht
                       ELSE KeineAntwortNachricht(variante)
            IN  /\ SendeAufruf(msg, DefaultMaxRetries)
                /\ gesendet' = Append(gesendet, msg)
                /\ pc' = IF variante = "x11" THEN "nm_question" ELSE "nm_answer"
                /\ UNCHANGED letzter_inhalt
    /\ UNCHANGED <<serverVars, variante, clipboard_tool, quelle, fragen, running, shutdown_event, aktueller_inhalt, lesung,
                   healthVars, matchVars, ei, ai, antwort_count, conv_rueckgabe,
                   question_erg, antwort_ja, weg>>

\* qa_finder.py: the QUESTION send returned (its result is dropped), the
\* ANSWER send follows.
KeineQuestionRet ==
    /\ pc = "nm_question" /\ sendpc = "ret"
    /\ question_erg' = Erg(rueckgabe)
    /\ SendeAufruf(KeineAntwortNachricht(variante), DefaultMaxRetries)
    /\ gesendet' = Append(gesendet, KeineAntwortNachricht(variante))
    /\ pc' = "nm_answer"
    /\ UNCHANGED <<serverVars, variante, clipboard_tool, quelle, fragen, letzter_inhalt, running, shutdown_event,
                   aktueller_inhalt, lesung, healthVars, matchVars, ei, ai, antwort_count,
                   conv_rueckgabe, clear_erg, antwort_ja, weg>>

\* The ANSWER send of the no-match branch returned (its result is dropped).
KeineAnswerRet ==
    /\ pc = "nm_answer" /\ sendpc = "ret"
    /\ antwort_ja' = (antwort_ja \/ rueckgabe)
    /\ KeineEnde
    /\ UNCHANGED <<serverVars, variante, clipboard_tool, quelle, fragen, running, shutdown_event, aktueller_inhalt, lesung,
                   healthVars, matchVars, ei, ai, antwort_count, conv_rueckgabe, gesendet,
                   clear_erg, question_erg, weg>>

\* self.shutdown_event.wait(0.2) (0.15 on GNOME) at the end of an iteration:
\* break when the event is set.
Warten ==
    /\ pc = "warten"
    /\ pc' = IF shutdown_event THEN "zurueck" ELSE "schleife"
    /\ IterationsEnde
    /\ UNCHANGED <<serverVars, variante, clipboard_tool, quelle, fragen, letzter_inhalt, running, shutdown_event,
                   healthVars, sendVars>>

\* graceful_shutdown() from the signal handler, at any point.
Signal ==
    /\ pc \notin {"zurueck", "ende"}
    /\ ~shutdown_event
    /\ running' = FALSE
    /\ shutdown_event' = TRUE
    /\ UNCHANGED <<serverVars, variante, clipboard_tool, quelle, fragen, letzter_inhalt, pc, aktueller_inhalt, lesung,
                   healthVars, matchVars, sendVars, convVars>>

\* __main__: finally: finder.graceful_shutdown()
Beenden ==
    /\ pc = "zurueck"
    /\ running' = FALSE
    /\ shutdown_event' = TRUE
    /\ pc' = "ende"
    /\ UNCHANGED <<serverVars, variante, clipboard_tool, quelle, fragen, letzter_inhalt, aktueller_inhalt, lesung,
                   healthVars, matchVars, sendVars, convVars>>

\* A step of the main thread other than the search step.
SchrittOhneSuche ==
    \/ Laden \/ WerkzeugPruefung \/ SchleifenKopf \/ VerbindungsPruefung \/ FehlerPruefung
    \/ PauseAbgelaufen \/ PauseAbbruch \/ Lesen \/ UnerwarteterFehler \/ FehlerPause
    \/ ConvClearRet \/ ConvQuestionRet \/ ConvSchleife \/ ConvAntwortRet
    \/ KeineClearRet \/ KeineQuestionRet \/ KeineAnswerRet
    \/ SendeEintritt \/ Verbindungsversuch \/ Backoff
    \/ Warten \/ Beenden

\* A step of the main thread.
Schritt == SchrittOhneSuche \/ Verarbeiten

Next == Schritt \/ Signal

Spec == Init /\ [][Next]_vars

\* The main thread keeps running: every wait and sleep has a timeout, every
\* clipboard read (subprocess timeout=2) and every connection attempt
\* (settimeout) returns, and the search is a computation that ends, so the
\* thread's next step is always taken. For the search step, which is enabled
\* whenever pc = "verarbeiten" and always leaves that position, this is
\* stated as: the thread is again and again not at "verarbeiten".
FairSpec ==
    Spec /\ WF_vars(SchrittOhneSuche) /\ []<>(pc # "verarbeiten")

(***************************************************************************)
(* lade_fragen_sicher on its own: one load of any source.                  *)
(***************************************************************************)

\* A dict without the key 'question'.
DictOhneFrage(a) == [isDict |-> TRUE, hasQuestion |-> FALSE, question |-> <<>>,
                     hasAnswer |-> TRUE, answer |-> a,
                     hasAnswers |-> FALSE, answers |-> <<>>]

\* The records the loaded lists are made of: valid ones, {"question": ""},
\* a blank question, no answer, no dict, a blank element in answers, no
\* question, an empty answer beside usable answers, an empty answers list.
LadeEintraege ==
    {Dict(T_abc, T_1), DictOhne(<<>>), Dict(<<" ">>, T_1), DictOhne(T_abc), KeinDict,
     DictMulti(T_abc, <<T_1, <<" ">>>>), DictOhneFrage(T_1),
     DictBeide(T_abc, <<>>, <<T_1>>), DictMulti(T_abc, <<>>)}

MaxLadeLaenge == 2

LadeQuellen ==
    {[kind |-> k, data |-> <<>>] : k \in {"missing", "leer", "invalid", "kein_list"}}
    \cup {[kind |-> "list", data |-> d] : d \in SeqsBis(LadeEintraege, MaxLadeLaenge)}

LadeInit ==
    /\ variante \in {"x11", "gnome"}
    /\ clipboard_tool = (IF variante = "x11" THEN "-" ELSE "xclip")
    /\ quelle \in LadeQuellen
    /\ InitFinder /\ InitMatch /\ InitSend /\ InitConv
    /\ overlay = "x11" /\ InitReceiver
    /\ pc = "start"
    /\ aktueller_inhalt = <<>>
    /\ lesung = "-"

LadeNext == Laden

LadeSpec == LadeInit /\ [][LadeNext]_vars

(***************************************************************************)
(* test_connection on its own: calls with any connection health before     *)
(* them. versuche counts the calls, letzter_ausgang is how the last probe  *)
(* went, rueckgabe its return value, fehler_vor the error_count before it. *)
(***************************************************************************)

MaxProben == 2

PingInit ==
    /\ variante \in {"x11", "gnome"}
    /\ clipboard_tool = (IF variante = "x11" THEN "-" ELSE "xclip")
    /\ quelle = [kind |-> "list", data |-> <<>>]
    /\ fragen = <<>>
    /\ letzter_inhalt = <<>>
    /\ running = TRUE
    /\ shutdown_event = FALSE
    /\ connection_alive \in BOOLEAN
    /\ error_count \in 0..max_errors
    /\ pc = "pruefen"
    /\ aktueller_inhalt = <<>>
    /\ lesung = "-"
    /\ InitMatch /\ InitSend /\ InitConv
    /\ overlay = "x11" /\ InitReceiver

\* test_connection(): connect and sendall(b"PING") succeed ("ok") or one of
\* them raises ("fehler").
test_connection ==
    /\ pc = "pruefen"
    /\ versuche < MaxProben
    /\ \E ausgang \in {"ok", "fehler"} :
        /\ connection_alive' = test_connection_alive(ausgang)
        /\ error_count' = test_connection_error_count(error_count, ausgang)
        /\ rueckgabe' = test_connection_alive(ausgang)
        /\ letzter_ausgang' = ausgang
    /\ versuche' = versuche + 1
    /\ fehler_vor' = error_count
    /\ UNCHANGED <<serverVars, finderVars, matchVars, convVars, sendpc, nachricht,
                   max_retries, attempt, schlaf>>

PingNext == test_connection

PingSpec == PingInit /\ [][PingNext]_vars

(***************************************************************************)
(* normalisiere_text on its own, applied to any value and then to its own  *)
(* result. aktueller_inhalt holds the argument as a value with its type,   *)
(* suchtext the first result, letzter_inhalt the result of the second      *)
(* call.                                                                   *)
(***************************************************************************)

\* A str value and values of other types (None, an int, a list, bytes).
PyStr(s) == [typ |-> "str", wert |-> s]

NichtStrings ==
    {[typ |-> "NoneType", wert |-> <<>>], [typ |-> "int", wert |-> <<"1">>],
     [typ |-> "list", wert |-> <<"a">>], [typ |-> "bytes", wert |-> <<"A", "b">>]}

\* normalisiere_text(text) for a value of any type: `if not
\* isinstance(text, str): return ""`.
normalisiere_wert(w) == IF w.typ # "str" THEN <<>> ELSE normalisiere_text(w.wert)

NormZeichen == {"a", "B", " ", "\t"}
MaxNormLaenge == 5

NormInit ==
    /\ variante \in {"x11", "gnome"}
    /\ clipboard_tool = (IF variante = "x11" THEN "-" ELSE "xclip")
    /\ quelle = [kind |-> "list", data |-> <<>>]
    /\ fragen = <<>>
    /\ letzter_inhalt = <<>>
    /\ running = TRUE
    /\ shutdown_event = FALSE
    /\ connection_alive = FALSE
    /\ error_count = 0
    /\ InitMatch /\ InitSend /\ InitConv
    /\ overlay = "x11" /\ InitReceiver
    /\ pc = "norm"
    /\ aktueller_inhalt \in {PyStr(t) : t \in SeqsBis(NormZeichen, MaxNormLaenge)}
                            \cup NichtStrings
    /\ lesung = "-"

\* r = normalisiere_text(text); normalisiere_text(r)
Normalisieren ==
    /\ pc = "norm"
    /\ \E r \in {normalisiere_wert(aktueller_inhalt)} :
        /\ suchtext' = r
        /\ letzter_inhalt' = normalisiere_wert(PyStr(r))
    /\ pc' = "normalisiert"
    /\ UNCHANGED <<serverVars, variante, clipboard_tool, quelle, fragen, running,
                   shutdown_event, aktueller_inhalt, lesung, healthVars, gefundene,
                   kandidaten, erzeugt, stufen, sendVars, convVars>>

NormNext == Normalisieren

NormSpec == NormInit /\ [][NormNext]_vars

(***************************************************************************)
(* Three calls of sende_nachricht_robust in a row, CLEAR, QUESTION:abc and *)
(* ANSWER:1, with any connection health before them, to a receiver that    *)
(* listens all the time (server_socket = "lauscht") or to none. ei counts  *)
(* the calls that returned, gesendet holds the messages passed, clear_erg, *)
(* question_erg and antwort_ja the three return values.                    *)
(***************************************************************************)

SzenarioNachrichten == <<T_CLEAR, T_QUESTION_ \o T_abc, T_ANSWER_ \o T_1>>

SzenarioInit ==
    /\ variante \in {"x11", "gnome"}
    /\ clipboard_tool = (IF variante = "x11" THEN "-" ELSE "xclip")
    /\ quelle = [kind |-> "list", data |-> <<>>]
    /\ fragen = <<>>
    /\ letzter_inhalt = <<>>
    /\ running = TRUE
    /\ shutdown_event = FALSE
    /\ connection_alive \in BOOLEAN
    /\ error_count \in 0..MaxFehlerStart
    /\ pc = "senden"
    /\ aktueller_inhalt = <<>>
    /\ lesung = "-"
    /\ InitMatch /\ InitSend /\ InitConv
    /\ overlay = "x11"
    /\ \E lauscht \in BOOLEAN :
        /\ spc = (IF lauscht THEN "accept" ELSE "ruhe")
        /\ srv_running = TRUE
        /\ server_socket = (IF lauscht THEN "lauscht" ELSE "None")
        /\ retry_count = 0
        /\ wartezeiten = <<>>
        /\ status = (IF lauscht THEN <<TRUE>> ELSE <<>>)
        /\ empfangen = <<>>
        /\ conn = 0
        /\ angenommen = 0
        /\ geschlossen = 0
        /\ gelesen = 0
        /\ recv_data = [art |-> "-", daten |-> <<>>]
        /\ accept_fehler = 0
        /\ offene_sockets = (IF lauscht THEN 1 ELSE 0)
        /\ stoppc = "-"
        /\ backlog = <<>>
        /\ eingang = <<>>

\* sende_nachricht_robust(<the next message>), max_retries at its default
SzenarioAufruf ==
    /\ sendpc = "idle"
    /\ ei < Len(SzenarioNachrichten)
    /\ SendeAufruf(SzenarioNachrichten[ei + 1], DefaultMaxRetries)
    /\ gesendet' = Append(gesendet, SzenarioNachrichten[ei + 1])
    /\ UNCHANGED <<serverVars, finderVars, healthVars, matchVars, ei, ai, antwort_count,
                   conv_rueckgabe, clear_erg, question_erg, antwort_ja, weg>>

\* The call returned.
SzenarioRueckkehr ==
    /\ sendpc = "ret"
    /\ ei' = ei + 1
    /\ clear_erg' = (IF ei = 0 THEN Erg(rueckgabe) ELSE clear_erg)
    /\ question_erg' = (IF ei = 1 THEN Erg(rueckgabe) ELSE question_erg)
    /\ antwort_ja' = (IF ei = 2 THEN rueckgabe ELSE antwort_ja)
    /\ SendeFertig
    /\ UNCHANGED <<serverVars, finderVars, healthVars, matchVars, ai, antwort_count,
                   conv_rueckgabe, gesendet, weg>>

\* connect() and sendall() go through exactly when the receiver listens.
SzenarioVerbindung ==
    Verbindungsversuch /\ ((letzter_ausgang' = "ok") = (server_socket = "lauscht"))

SzenarioNext ==
    \/ SzenarioAufruf \/ SendeEintritt \/ SzenarioVerbindung \/ Backoff
    \/ SzenarioRueckkehr

SzenarioSpec == SzenarioInit /\ [][SzenarioNext]_vars

(***************************************************************************)
(* The display process's receiver thread (qa_overlay.py,                   *)
(* qa_overlay_gnome.py): start_server_robust, handle_connection,           *)
(* verarbeite_nachricht_sicher, cleanup_socket and stop.                   *)
(*                                                                         *)
(* spc: "ruhe" (thread not started), "kopf" (test of the outer while),     *)
(* "erzeugen" (socket.socket()), "binden" (setsockopt .. listen, emit,     *)
(* retry_count = 0), "accept_kopf" (test of the inner while), "accept",    *)
(* "handling" (in handle_connection), "schlaf" (time.sleep of the error    *)
(* handler), "finally" (the finally clause, the loop goes on),             *)
(* "finally_break" (the finally clause after a break), "schluss" (after    *)
(* the outer loop), "beendet" (start_server_robust returned).              *)
(* stoppc: position of the thread that calls stop(): "-" (no call),        *)
(* "flag" (self.running = False done), "zu" (cleanup_socket closed the     *)
(* socket and has not yet set the attribute to None), "fertig".            *)
(***************************************************************************)

\* max_retries = 5
max_server_retries == 5

\* An undecodable byte of the received chunk.
Ungueltig == "xFF"

T_PING == <<"P", "I", "N", "G">>

\* data.decode('utf-8', errors='ignore'): undecodable bytes are left out.
Decode(data) == SelectSeq(data, LAMBDA b : b # Ungueltig)

\* str.startswith
startswith(s, prefix) == Len(s) >= Len(prefix) /\ SubSeq(s, 1, Len(prefix)) = prefix

\* s[n:]
Ab(s, n) == SubSeq(s, n + 1, Len(s))

\* A payload that is forwarded whatever it is.
PayloadWeiterImmer(inhalt) == TRUE

\* `if inhalt:` of the QUESTION and ANSWER branches
PayloadWeiter(inhalt) == inhalt # <<>>

\* A parser that forwards every text it does not know as an ANSWER.
verarbeite_alles(roh) ==
    IF roh = <<>> THEN <<>>
    ELSE LET n == Strip(roh)
         IN  IF n = T_CLEAR THEN << <<"CLEAR", <<>> >> >>
             ELSE IF n = T_PING THEN <<>>
             ELSE IF startswith(n, T_QUESTION_) THEN << <<"QUESTION", Strip(Ab(n, 9))>> >>
             ELSE << <<"ANSWER", n>> >>

\* verarbeite_nachricht_sicher: the message_received emissions of one call,
\* in order (none or one). qa_overlay_gnome.py has no PING branch and no
\* else branch; neither emits.
verarbeite_nachricht_sicher(roh) ==
    IF roh = <<>> THEN <<>>
    ELSE LET n == Strip(roh)
         IN  IF n = T_CLEAR THEN << <<"CLEAR", <<>> >> >>
             ELSE IF n = T_PING THEN <<>>
             ELSE IF startswith(n, T_QUESTION_)
                  THEN (IF PayloadWeiter(Strip(Ab(n, 9)))
                        THEN << <<"QUESTION", Strip(Ab(n, 9))>> >> ELSE <<>>)
             ELSE IF startswith(n, T_ANSWER_)
                  THEN (IF PayloadWeiter(Strip(Ab(n, 7)))
                        THEN << <<"ANSWER", Strip(Ab(n, 7))>> >> ELSE <<>>)
             ELSE <<>>

\* The chunks a client sends: the protocol's messages, a QUESTION with an
\* empty payload, with a blank before the payload, a CLEAR with whitespace
\* around it, with an undecodable byte in it, unknown texts, a blank chunk.
Chunks ==
    {T_CLEAR, T_PING, T_QUESTION_ \o T_abc, T_ANSWER_ \o T_1, T_QUESTION_,
     T_QUESTION_ \o <<" ">> \o T_abc, <<" ">> \o T_CLEAR \o <<"\n">>,
     <<"C", "L", Ungueltig, "E", "A", "R">>, T_abc, Lower(T_CLEAR), <<" ">>}

\* conn.recv(1024) in handle_connection: a chunk, b'' (the peer closed),
\* socket.timeout, or another error.
Lesungen ==
    {[art |-> "daten", daten |-> c] : c \in Chunks}
    \cup {[art |-> a, daten |-> <<>>] : a \in {"leer", "timeout", "fehler"}}

MaxVerbindungen == 2
MaxAcceptFehler == 2

\* QThread.start() -> run() -> start_server_robust(): retry_count = 0
Run ==
    /\ spc = "ruhe"
    /\ spc' = "kopf"
    /\ retry_count' = 0
    /\ UNCHANGED <<finderVars, healthVars, matchVars, sendVars, convVars, netzVars, overlay,
                   srv_running, server_socket, wartezeiten, status, empfangen, conn,
                   angenommen, geschlossen, gelesen, recv_data, accept_fehler,
                   offene_sockets, stoppc>>

\* An outer loop that tests self.running only.
ServerLaeuftOhneGrenze(run, rc) == run

\* An outer loop that tests retry_count only.
ServerLaeuftOhneStop(run, rc) == rc < max_server_retries

\* while self.running and retry_count < max_retries
ServerLaeuft(run, rc) == run /\ rc < max_server_retries

AeussererKopf ==
    /\ spc = "kopf"
    /\ IF ServerLaeuft(srv_running, retry_count)
       THEN spc' = "erzeugen"
       ELSE spc' = "schluss"
    /\ UNCHANGED <<finderVars, healthVars, matchVars, sendVars, convVars, netzVars, overlay,
                   srv_running, server_socket, retry_count, wartezeiten, status,
                   empfangen, conn, angenommen, geschlossen, gelesen, recv_data, accept_fehler,
                   offene_sockets, stoppc>>

\* min(retry_count * 2, 10)
wait_time(rc) == Min(rc * 2, 10)

\* Whether the error handler sleeps: qa_overlay.py `if retry_count <
\* max_retries and self.running`, qa_overlay_gnome.py always.
HandlerSchlaeft(ov, rc, run) == ov = "gnome" \/ (rc < max_server_retries /\ run)

\* The handler of a failed start: `except socket.error` of qa_overlay.py,
\* `except Exception` of qa_overlay_gnome.py.
StartFehler ==
    /\ retry_count' = retry_count + 1
    /\ status' = Append(status, FALSE)
    /\ IF HandlerSchlaeft(overlay, retry_count + 1, srv_running)
       THEN /\ wartezeiten' = Append(wartezeiten, wait_time(retry_count + 1))
            /\ spc' = "schlaf"
       ELSE /\ UNCHANGED wartezeiten
            /\ spc' = "finally"

\* An exception of the start that is no socket.error: qa_overlay.py logs
\* it and breaks, qa_overlay_gnome.py handles it like every other one.
KritischerFehler ==
    IF overlay = "x11"
    THEN spc' = "finally_break" /\ UNCHANGED <<retry_count, status, wartezeiten>>
    ELSE StartFehler

\* self.server_socket = socket.socket(...)
Erzeugen ==
    /\ spc = "erzeugen"
    /\ \E ausgang \in {"ok", "fehler"} :
        IF ausgang = "ok"
        THEN /\ server_socket' = "offen"
             /\ offene_sockets' = offene_sockets + 1
             /\ spc' = "binden"
             /\ UNCHANGED <<retry_count, status, wartezeiten>>
        ELSE /\ StartFehler
             /\ UNCHANGED <<server_socket, offene_sockets>>
    /\ UNCHANGED <<finderVars, healthVars, matchVars, sendVars, convVars, netzVars, overlay,
                   srv_running, empfangen, conn, angenommen, geschlossen, gelesen, recv_data,
                   accept_fehler, stoppc>>

\* setsockopt, settimeout, bind, listen, connection_status.emit(True),
\* retry_count = 0. On the attribute None (stop() cleared it) the first call
\* raises AttributeError, on a closed socket it raises socket.error.
Binden ==
    /\ spc = "binden"
    /\ \/ /\ server_socket = "None"
          /\ KritischerFehler
          /\ UNCHANGED server_socket
       \/ /\ server_socket = "zu"
          /\ StartFehler
          /\ UNCHANGED server_socket
       \/ /\ server_socket = "offen"
          /\ \E ausgang \in {"ok", "fehler"} :
              IF ausgang = "ok"
              THEN /\ server_socket' = "lauscht"
                   /\ status' = <<TRUE>>
                   /\ wartezeiten' = <<>>
                   /\ retry_count' = 0
                   /\ spc' = "accept_kopf"
              ELSE /\ StartFehler
                   /\ UNCHANGED server_socket
    /\ UNCHANGED <<finderVars, healthVars, matchVars, sendVars, convVars, netzVars, overlay,
                   srv_running, empfangen, conn, angenommen, geschlossen, gelesen, recv_data,
                   accept_fehler, offene_sockets, stoppc>>

\* time.sleep(wait_time) of the error handler returns.
SchlafEnde ==
    /\ spc = "schlaf"
    /\ spc' = "finally"
    /\ UNCHANGED <<finderVars, healthVars, matchVars, sendVars, convVars, netzVars, overlay,
                   srv_running, server_socket, retry_count, wartezeiten, status,
                   empfangen, conn, angenommen, geschlossen, gelesen, recv_data, accept_fehler, offene_sockets, stoppc>>

\* while self.running (the accept loop)
AcceptKopf ==
    /\ spc = "accept_kopf"
    /\ spc' = IF srv_running THEN "accept" ELSE "finally"
    /\ UNCHANGED <<finderVars, healthVars, matchVars, sendVars, convVars, netzVars, overlay,
                   srv_running, server_socket, retry_count, wartezeiten, status,
                   empfangen, conn, angenommen, geschlossen, gelesen, recv_data, accept_fehler, offene_sockets, stoppc>>

\* Where an accept loop that ended with an error goes on: `break` leaves the
\* inner loop, no handler of the outer try runs, the finally clause is next.
NachAcceptFehler == "finally"

\* conn, addr = self.server_socket.accept(): a connection, socket.timeout
\* (continue), or an error (break). On a socket that stop() closed or
\* cleared the call fails, or the wait it was in times out.
Accept ==
    /\ spc = "accept"
    /\ \/ /\ server_socket = "lauscht"
          /\ angenommen < MaxVerbindungen
          /\ conn' = angenommen + 1
          /\ angenommen' = angenommen + 1
          /\ spc' = "handling"
          /\ UNCHANGED accept_fehler
       \/ /\ spc' = "accept_kopf"
          /\ UNCHANGED <<conn, angenommen, accept_fehler>>
       \/ /\ server_socket = "lauscht"
          /\ accept_fehler < MaxAcceptFehler
          /\ accept_fehler' = accept_fehler + 1
          /\ spc' = NachAcceptFehler
          /\ UNCHANGED <<conn, angenommen>>
       \/ /\ server_socket # "lauscht"
          /\ spc' = "finally"
          /\ UNCHANGED <<conn, angenommen, accept_fehler>>
    /\ UNCHANGED <<finderVars, healthVars, matchVars, sendVars, convVars, netzVars, overlay,
                   srv_running, server_socket, retry_count, wartezeiten, status,
                   empfangen, geschlossen, gelesen, recv_data, offene_sockets, stoppc>>

\* A handle_connection that leaves the connection open.
SchliessenNie(n) == n

\* `with conn:` closes the connection on every way out of the block.
Schliessen(n) == n + 1

\* handle_connection: settimeout, one recv, decode, the parse and emit of
\* verarbeite_nachricht_sicher, and the close at the end of `with conn`.
\* socket.timeout and every other exception are swallowed.
\* A handle_connection without its except clauses: the error of a read
\* reaches the accept loop's handler, which breaks.
NachVerbindungFehlerEndet(l) == IF l.art = "fehler" THEN "finally" ELSE "accept_kopf"

\* Where the receiver thread goes on after handle_connection with the read
\* l: socket.timeout and every other exception are caught inside, the call
\* returns to the accept loop.
NachVerbindung(l) == "accept_kopf"

handle_connection ==
    /\ spc = "handling"
    /\ \E l \in Lesungen :
        /\ gelesen' = gelesen + 1
        /\ recv_data' = l
        /\ empfangen' = IF l.art = "daten"
                        THEN empfangen \o verarbeite_nachricht_sicher(Decode(l.daten))
                        ELSE empfangen
        /\ spc' = NachVerbindung(l)
    /\ geschlossen' = Schliessen(geschlossen)
    /\ conn' = 0
    /\ UNCHANGED <<finderVars, healthVars, matchVars, sendVars, convVars, netzVars, overlay,
                   srv_running, server_socket, retry_count, wartezeiten, status,
                   angenommen, accept_fehler, offene_sockets, stoppc>>

\* cleanup_socket in one step: `if self.server_socket:` close() and set the
\* attribute to None. close() on a closed socket does nothing.
cleanup_socket ==
    /\ server_socket' = "None"
    /\ offene_sockets' = IF server_socket \in {"offen", "lauscht"}
                         THEN offene_sockets - 1 ELSE offene_sockets

\* finally: self.cleanup_socket(), then the outer loop's test or, after a
\* break, the statement after the loop.
Finally ==
    /\ spc \in {"finally", "finally_break"}
    /\ cleanup_socket
    /\ spc' = IF spc = "finally" THEN "kopf" ELSE "schluss"
    /\ UNCHANGED <<finderVars, healthVars, matchVars, sendVars, convVars, netzVars, overlay,
                   srv_running, retry_count, wartezeiten, status, empfangen, conn,
                   angenommen, geschlossen, gelesen, recv_data, accept_fehler,
                   stoppc>>

\* self.connection_status.emit(False) after the outer loop
Schluss ==
    /\ spc = "schluss"
    /\ status' = Append(status, FALSE)
    /\ spc' = "beendet"
    /\ UNCHANGED <<finderVars, healthVars, matchVars, sendVars, convVars, netzVars, overlay,
                   srv_running, server_socket, retry_count, wartezeiten, empfangen,
                   conn, angenommen, geschlossen, gelesen, recv_data, accept_fehler,
                   offene_sockets, stoppc>>

\* stop(), called by the GUI thread: self.running = False
StopFlag ==
    /\ stoppc = "-"
    /\ srv_running' = FALSE
    /\ stoppc' = "flag"
    /\ UNCHANGED <<finderVars, healthVars, matchVars, sendVars, convVars, netzVars, overlay, spc,
                   server_socket, retry_count, wartezeiten, status, empfangen, conn,
                   angenommen, geschlossen, gelesen, recv_data, accept_fehler,
                   offene_sockets>>

\* stop(): cleanup_socket up to self.server_socket.close()
StopClose ==
    /\ stoppc = "flag"
    /\ IF server_socket = "None"
       THEN stoppc' = "fertig" /\ UNCHANGED <<server_socket, offene_sockets>>
       ELSE /\ stoppc' = "zu"
            /\ server_socket' = "zu"
            /\ offene_sockets' = IF server_socket \in {"offen", "lauscht"}
                                 THEN offene_sockets - 1 ELSE offene_sockets
    /\ UNCHANGED <<finderVars, healthVars, matchVars, sendVars, convVars, netzVars, overlay, spc,
                   srv_running, retry_count, wartezeiten, status, empfangen, conn,
                   angenommen, geschlossen, gelesen, recv_data, accept_fehler>>

\* stop(): self.server_socket = None, the end of its cleanup_socket
StopNone ==
    /\ stoppc = "zu"
    /\ server_socket' = "None"
    /\ stoppc' = "fertig"
    /\ UNCHANGED <<finderVars, healthVars, matchVars, sendVars, convVars, netzVars, overlay, spc,
                   srv_running, retry_count, wartezeiten, status, empfangen, conn,
                   angenommen, geschlossen, gelesen, recv_data, accept_fehler,
                   offene_sockets>>

\* The receiver thread of a display process, the watcher left aside.
ServerInit ==
    /\ variante = "x11"
    /\ clipboard_tool = "-"
    /\ quelle = [kind |-> "list", data |-> <<>>]
    /\ InitFinder /\ InitMatch /\ InitSend /\ InitConv
    /\ pc = "start"
    /\ aktueller_inhalt = <<>>
    /\ lesung = "-"
    /\ overlay \in {"x11", "gnome"}
    /\ InitReceiver

\* A step of the receiver thread.
ServerSchritt ==
    \/ Run \/ AeussererKopf \/ Erzeugen \/ Binden \/ SchlafEnde \/ AcceptKopf
    \/ Accept \/ handle_connection \/ Finally \/ Schluss

\* A step of the thread that calls stop().
Stop == StopFlag \/ StopClose \/ StopNone

ServerNext == ServerSchritt \/ Stop

ServerSpec == ServerInit /\ [][ServerNext]_vars

\* The receiver thread keeps running: accept has a timeout of 2 s, recv one
\* of 5 s, every sleep is at most 10 s, the rest is computation.
ServerFairSpec == ServerSpec /\ WF_vars(ServerSchritt)

(***************************************************************************)
(* validiere_frage on its own, on JSON values of any type.                 *)
(*                                                                         *)
(* A JSON value is [typ, text, liste]: typ is "str" (text holds it),       *)
(* "list" (liste holds its elements), "int", "null" or "dict".  A record   *)
(* of the list is [typ, schluessel, question, answer, answers]: its type,  *)
(* the keys it has when it is a dict, and their values.  In this           *)
(* specification quelle holds the record and rueckgabe the value           *)
(* validiere_frage returned for it.                                        *)
(***************************************************************************)

JStr(t)   == [typ |-> "str", text |-> t, liste |-> <<>>]
JListe(l) == [typ |-> "list", text |-> <<>>, liste |-> l]
JZahl     == [typ |-> "int", text |-> <<>>, liste |-> <<>>]
JNull     == [typ |-> "null", text |-> <<>>, liste |-> <<>>]
JDict     == [typ |-> "dict", text |-> <<>>, liste |-> <<>>]

\* isinstance(v, str) and len(v.strip()) > 0
NichtLeererString(v) == v.typ = "str" /\ Len(Strip(v.text)) > 0

\* validiere_frage with `if 'answer' in eintrag: ... elif 'answers' in
\* eintrag: ...`: an unusable answer hides the answers.
validiere_frage_answer_zuerst(e) ==
    IF e.typ # "dict" THEN FALSE
    ELSE IF "question" \notin e.schluessel THEN FALSE
    ELSE IF e.question.typ # "str" \/ Len(Strip(e.question.text)) = 0 THEN FALSE
    ELSE IF "answer" \in e.schluessel THEN NichtLeererString(e.answer)
    ELSE IF "answers" \in e.schluessel /\ e.answers.typ = "list" /\ Len(e.answers.liste) > 0
         THEN \A k \in 1..Len(e.answers.liste) : NichtLeererString(e.answers.liste[k])
         ELSE FALSE

\* validiere_frage(eintrag, index), statement by statement.
validiere_frage_json(e) ==
    IF e.typ # "dict" THEN FALSE
    ELSE IF "question" \notin e.schluessel THEN FALSE
    ELSE IF e.question.typ # "str" \/ Len(Strip(e.question.text)) = 0 THEN FALSE
    ELSE IF "answer" \in e.schluessel /\ NichtLeererString(e.answer) THEN TRUE
    ELSE IF "answers" \in e.schluessel /\ e.answers.typ = "list" /\ Len(e.answers.liste) > 0
         THEN \A k \in 1..Len(e.answers.liste) : NichtLeererString(e.answers.liste[k])
         ELSE FALSE

\* The values tried for the keys, and the records made of them.
FrageWerte   == {JStr(<<"q">>), JStr(<<" ", "q", " ">>), JStr(<<" ">>), JStr(<<>>),
                 JZahl, JNull, JListe(<<JStr(<<"q">>)>>)}
AnswerWerte  == {JStr(<<"a">>), JStr(<<" ">>), JStr(<<>>), JZahl, JNull,
                 JListe(<<JStr(<<"a">>)>>)}
AnswersWerte == {JListe(<<>>), JListe(<<JStr(<<"a">>)>>),
                 JListe(<<JStr(<<"a">>), JStr(<<"\t">>)>>),
                 JListe(<<JStr(<<"a">>), JZahl>>), JListe(<<JNull>>),
                 JListe(<<JStr(<<"a">>), JStr(<<"b">>), JStr(<<"c">>), JStr(<<"d">>)>>),
                 JStr(<<"a">>), JZahl, JNull, JDict}

Schluessel == {"question", "answer", "answers"}

JsonEintraege ==
    {[typ |-> "dict", schluessel |-> s, question |-> q, answer |-> a, answers |-> l] :
         s \in SUBSET Schluessel, q \in FrageWerte, a \in AnswerWerte, l \in AnswersWerte}
    \cup {[typ |-> t, schluessel |-> {}, question |-> JNull, answer |-> JNull,
           answers |-> JNull] : t \in {"str", "list", "int", "null"}}

\* A value of a key the record does not have is never read.
ValidEintraege ==
    {e \in JsonEintraege :
         /\ "question" \notin e.schluessel => e.question = JNull
         /\ "answer" \notin e.schluessel => e.answer = JNull
         /\ "answers" \notin e.schluessel => e.answers = JNull}

ValidInit ==
    /\ variante \in {"x11", "gnome"}
    /\ clipboard_tool = (IF variante = "x11" THEN "-" ELSE "xclip")
    /\ quelle \in {[kind |-> "eintrag", data |-> e] : e \in ValidEintraege}
    /\ InitFinder /\ InitMatch /\ InitSend /\ InitConv
    /\ overlay = "x11" /\ InitReceiver
    /\ pc = "validieren"
    /\ aktueller_inhalt = <<>>
    /\ lesung = "-"

\* validiere_frage(eintrag, index) is called and returns.
Validieren ==
    /\ pc = "validieren"
    /\ rueckgabe' = validiere_frage_json(quelle.data)
    /\ pc' = "validiert"
    /\ UNCHANGED <<serverVars, variante, clipboard_tool, quelle, fragen, letzter_inhalt, running,
                   shutdown_event, aktueller_inhalt, lesung, healthVars, matchVars, convVars,
                   sendpc, nachricht, max_retries, attempt, versuche, schlaf,
                   letzter_ausgang, fehler_vor>>

ValidNext == Validieren

ValidSpec == ValidInit /\ [][ValidNext]_vars

(***************************************************************************)
(* Properties of the matcher (under MatchSpec)                             *)
(***************************************************************************)

\* Entry i of fragen has a normalized question equal to the normalized text.
IstExakt(i) ==
    fragen[i].isDict /\ normalisiere_text(FrageVon(fragen[i])) = normalisiere_text(suchtext)

\* Entry i of fragen has a non-empty normalized question that contains the
\* normalized text or is contained in it.
IstTeilstring(i) ==
    LET fn == normalisiere_text(FrageVon(fragen[i]))
        sn == normalisiere_text(suchtext)
    IN  fragen[i].isDict /\ fn # <<>> /\ (IsSubstring(sn, fn) \/ IsSubstring(fn, sn))

\* C8: the substring tier ran only if no entry matches exactly, the fuzzy
\* tier ran only if no entry matches exactly or as a substring, and when some
\* entry matches exactly every candidate and every returned entry is an exact
\* match with score 100.
C8_TierShortCircuit ==
    /\ "teilstring" \in stufen => \A i \in 1..Len(fragen) : ~IstExakt(i)
    /\ "fuzzy" \in stufen => \A i \in 1..Len(fragen) : ~IstExakt(i) /\ ~IstTeilstring(i)
    /\ (\E i \in 1..Len(fragen) : IstExakt(i)) =>
           /\ \A k \in 1..Len(gefundene) : IstExakt(gefundene[k])
           /\ \A k \in 1..Len(kandidaten) :
                  kandidaten[k].num = ScoreExakt /\ kandidaten[k].den = 1

\* C8 witness: a call returned exact matches while another entry of the
\* corpus, which the substring tier would have taken, was left out.
C8_Witness ==
    /\ pc = "gesucht"
    /\ gefundene # <<>>
    /\ \E i \in 1..Len(fragen) : IstExakt(i)
    /\ \E i \in 1..Len(fragen) :
           /\ IstTeilstring(i) /\ ~IstExakt(i)
           /\ \A k \in 1..Len(gefundene) : gefundene[k] # i

\* C9: no entry of the corpus appears twice in the returned sequence.
C9_NoEntryTwice ==
    \A j, k \in 1..Len(gefundene) : j # k => gefundene[j] # gefundene[k]

\* C10: at most 5 entries are returned, and each is an entry of the corpus.
C10_AtMostFive ==
    /\ Len(gefundene) <= 5
    /\ \A k \in 1..Len(gefundene) : gefundene[k] \in 1..Len(fragen)

\* C10 witness: a call produced more than 5 candidates and returned 5.
C10_Witness ==
    pc = "gesucht" /\ Len(kandidaten) > 5 /\ Len(gefundene) = 5

\* C11: for a text of fewer than 3 characters after trimming, the empty text
\* included, the call returns the empty list and runs no tier: no entry of
\* the corpus is read and no candidate is produced.
C11_ShortTextNoSearch ==
    (pc = "gesucht" /\ Len(Strip(suchtext)) < 3) =>
        gefundene = <<>> /\ kandidaten = <<>> /\ stufen = {}

\* C11 witness: a call for a text of 3 characters, 2 after trimming, returned
\* nothing although an entry's question contains the trimmed text.
C11_Witness ==
    /\ pc = "gesucht" /\ Len(suchtext) = 3 /\ Len(Strip(suchtext)) = 2
    /\ gefundene = <<>> /\ stufen = {}
    /\ \E i \in 1..Len(fragen) :
           fragen[i].isDict /\ IsSubstring(Strip(suchtext), FrageVon(fragen[i]))


(***************************************************************************)
(* Properties of sende_nachricht_robust (under SendSpec)                   *)
(***************************************************************************)

\* The sleeps of a call that made v attempts: 0.5 * k seconds after the k-th
\* failed attempt, k = 1..v-1.
LinearerSchlaf(v) == [k \in 1..(v - 1) |-> k]

C3_SuccessResetsHealth ==
    sendpc = "ret" /\ rueckgabe => error_count = 0 /\ connection_alive

\* C3 witness: a call entered with a positive error_count returned True on
\* its third attempt.
C3_Witness ==
    sendpc = "ret" /\ rueckgabe /\ fehler_vor > 0 /\ versuche = 3

\* C4: when a call whose attempts all failed has returned, it returned False,
\* error_count is one more than at its entry, and connection_alive is False.
C4_ExhaustedCountsOnce ==
    sendpc = "ret" /\ nachricht # <<>> /\ letzter_ausgang # "ok" =>
        /\ ~rueckgabe
        /\ error_count = fehler_vor + 1
        /\ ~connection_alive

\* C4 witness: a call entered with a positive error_count returned False
\* after three failed attempts.
C4_Witness ==
    /\ sendpc = "ret" /\ ~rueckgabe /\ versuche = 3
    /\ letzter_ausgang = "fehler" /\ fehler_vor > 0


(***************************************************************************)
(* Properties of the conversation and the watch loop (under Spec)          *)
(***************************************************************************)

\* C1: while error_count is at max_errors or above, no text is searched and
\* no call of sende_nachricht_robust is in progress.
C1_BreakerStopsSends ==
    error_count >= 10 => pc # "verarbeiten" /\ sendpc \notin {"entry", "connect", "backoff"}

\* The answer texts a candidate contributes: its answer, else the first
\* three of its answers.
AntwortTexte(eintrag) ==
    IF eintrag.hasAnswer THEN <<eintrag.answer>>
    ELSE IF eintrag.hasAnswers
         THEN [k \in 1..(IF Len(eintrag.answers) < 3 THEN Len(eintrag.answers) ELSE 3) |->
                   eintrag.answers[k]]
         ELSE <<>>

\* The messages of the conversation for the candidates found: CLEAR, the
\* QUESTION (the text cut to 80 characters plus "..." when longer), one
\* ANSWER per answer text in candidate order.
ErwarteteNachrichten ==
    LET F[k \in 0..Len(gefundene)] ==
            IF k = 0 THEN <<>>
            ELSE LET t == AntwortTexte(fragen[gefundene[k]])
                 IN  F[k - 1] \o [j \in 1..Len(t) |-> T_ANSWER_ \o <<">", " ">> \o t[j]]
        kurz == IF Len(suchtext) > 80
                THEN SubSeq(suchtext, 1, 80) \o <<".", ".", ".">> ELSE suchtext
    IN  <<T_CLEAR, T_QUESTION_ \o kurz>> \o F[Len(gefundene)]

IstPraefix(a, b) == Len(a) <= Len(b) /\ SubSeq(b, 1, Len(a)) = a

\* C5: the sends of a conversation are, in this order, CLEAR, QUESTION and
\* the ANSWERs in candidate order; the QUESTION send is called only after
\* the CLEAR send returned True, an ANSWER send only after the QUESTION send
\* returned.
C5_ConversationOrder ==
    weg = "conv" =>
        /\ gesendet # <<>>
        /\ IstPraefix(gesendet, ErwarteteNachrichten)
        /\ Len(gesendet) >= 2 => clear_erg = "True"
        /\ Len(gesendet) >= 3 => question_erg # "-"

\* C5 witness: a conversation for candidates of every answer shape has sent
\* CLEAR, QUESTION and five ANSWERs.
C5_Witness ==
    weg = "conv" /\ conv_rueckgabe = "True" /\ fragen = K_gemischt /\ Len(gesendet) = 7

C7_TrueNeedsAnswer ==
    weg = "conv" =>
        /\ conv_rueckgabe = "True" => antwort_ja
        /\ (conv_rueckgabe # "-" /\ ~antwort_ja) => conv_rueckgabe = "False"

\* C7 witness: CLEAR and QUESTION went through, every ANSWER send failed and
\* the conversation returned False.
C7_Witness ==
    /\ weg = "conv" /\ conv_rueckgabe = "False"
    /\ clear_erg = "True" /\ question_erg = "True" /\ Len(gesendet) > 2


(***************************************************************************)
(* Properties of lade_fragen_sicher (under LadeSpec)                       *)
(***************************************************************************)

\* The source exists, is not empty, parses to a non-empty list, and a record
\* of the list passes validiere_frage.
Ladbar ==
    /\ quelle.kind = "list"
    /\ Len(quelle.data) > 0
    /\ \E i \in 1..Len(quelle.data) : validiere_frage(quelle.data[i])

\* C12: the load succeeds (the watcher goes on past it) exactly when the
\* source exists, is not empty, parses to a non-empty list and has a valid
\* record; an invalid record beside a valid one does not make it fail, an
\* invalid record alone does; after a failed load self.fragen is empty.
C12_LoadIff ==
    pc # "start" =>
        /\ pc \in {"schleife", "werkzeug"} <=> Ladbar
        /\ pc = "zurueck" => fragen = <<>>
        /\ (quelle.kind = "list" /\ Len(quelle.data) = 1 /\ ~validiere_frage(quelle.data[1]))
               => pc = "zurueck"

\* C12 witness: a list of {"question": ""} and a valid record was loaded.
C12_Witness ==
    /\ pc \in {"schleife", "werkzeug"}
    /\ quelle.data = <<DictOhne(<<>>), Dict(T_abc, T_1)>>

\* C13: after a load every entry of self.fragen passes validiere_frage.
C13_StoredAreValid ==
    pc # "start" => \A i \in 1..Len(fragen) : validiere_frage(fragen[i])


(***************************************************************************)
(* Properties of the watch loop: start, shutdown, the clipboard read       *)
(* (under Spec)                                                            *)
(***************************************************************************)

\* C14: when the load fails, monitor_clipboard_robust returns right after
\* it: the watcher is never at a position of the loop, so it reads no
\* clipboard, searches nothing, opens no connection.
C14_NoLoopAfterFailedLoad ==
    (pc # "start" /\ ~Ladbar) =>
        /\ pc \in {"zurueck", "ende"}
        /\ lesung = "-" /\ aktueller_inhalt = <<>>
        /\ suchtext = <<>> /\ gefundene = <<>>
        /\ sendpc = "idle" /\ versuche = 0 /\ gesendet = <<>>
        /\ error_count = 0 /\ ~connection_alive

\* C14 witness: the watcher has ended on a source that is not JSON.
C14_Witness ==
    pc = "ende" /\ quelle.kind = "invalid" /\ fragen = <<>>

\* C15: once shutdown_event is set, no step opens a connection for a send.
C15_NoAttemptAfterShutdown ==
    [][shutdown_event => versuche' # versuche + 1]_vars

\* C16: whenever shutdown_event is set, wherever the watcher is (in the wait
\* at the end of an iteration, in the 30 s pause, in the 1 s wait of the
\* exception handler, inside an iteration), monitor_clipboard_robust
\* eventually returns.
C16_ShutdownEndsLoop ==
    shutdown_event ~> pc \in {"zurueck", "ende"}

\* C16 witness: the event is set while the watcher is in the 30 s pause.
C16_Witness ==
    shutdown_event /\ pc = "pause" /\ error_count >= 10

\* C17: when the clipboard tool was found missing by a read, the loop has
\* ended: the watcher is at its return or after it.
C17_MissingToolEndsLoop ==
    lesung = "kein_tool" => pc \in {"zurueck", "ende"}

\* The step that decides what the iteration does with the text it read
\* (an exception raised there is the step of the handler instead).
Entscheidung == pc = "verarbeiten" /\ pc' \notin {"verarbeiten", "fehlerpause"}

\* Nothing is searched and nothing is sent by the step.
KeineSucheKeinSenden ==
    /\ UNCHANGED <<matchVars, sendVars, convVars, healthVars>>
    /\ sendpc' = "idle"

\* C18 as stated: for a text that differs from letzter_inhalt and has 0 to 7
\* characters after trimming, the iteration searches nothing, sends nothing
\* and ends with letzter_inhalt equal to the text.
C18_ShortRecordedFromZero ==
    [][(Entscheidung /\ aktueller_inhalt # letzter_inhalt
            /\ Len(Strip(aktueller_inhalt)) <= 7) =>
           (KeineSucheKeinSenden /\ letzter_inhalt' = aktueller_inhalt)]_vars

\* C18 amended: for a text that differs from letzter_inhalt, with 1 to 7
\* characters after trimming the iteration searches nothing, sends nothing
\* and ends at once with letzter_inhalt equal to the text; with 0 characters
\* (the empty text) it searches nothing, sends nothing and leaves
\* letzter_inhalt as it was.
C18_ShortRecordedFromOne ==
    [][(Entscheidung /\ aktueller_inhalt # letzter_inhalt
            /\ Len(Strip(aktueller_inhalt)) <= 7) =>
           /\ KeineSucheKeinSenden
           /\ Len(Strip(aktueller_inhalt)) >= 1 =>
                  letzter_inhalt' = aktueller_inhalt /\ pc' = "schleife"
           /\ Len(Strip(aktueller_inhalt)) = 0 =>
                  letzter_inhalt' = letzter_inhalt /\ pc' = "warten"]_vars

\* C18 witness: the text "kurz" was recorded as seen and the loop is at its
\* next test, with nothing searched.
C18_Witness ==
    pc = "schleife" /\ letzter_inhalt = T_kurz /\ suchtext = <<>> /\ sendpc = "idle"

\* C19: the search and the sends are made only for a text that differs from
\* letzter_inhalt, and when they are over, found or not, sent or failed,
\* letzter_inhalt is that text, of 8 characters or more: a text the
\* clipboard keeps returning is searched and sent at most once.
C19_SeenAfterProcessing ==
    /\ (pc = "warten" /\ weg # "-") =>
           /\ letzter_inhalt = suchtext /\ aktueller_inhalt = suchtext
           /\ Len(Strip(suchtext)) >= 8
    /\ pc \in {"conv_clear", "conv_question", "conv_schleife", "conv_antwort",
                "nm_clear", "nm_question", "nm_answer"} =>
           suchtext # letzter_inhalt /\ aktueller_inhalt = suchtext

\* C19 witness: nothing was found for "zzzzzzzz", the CLEAR send failed, and
\* the text is recorded as seen.
C19_Witness ==
    /\ pc = "warten" /\ weg = "nm" /\ clear_erg = "False"
    /\ letzter_inhalt = T_zzz

\* C20: an iteration whose text equals letzter_inhalt searches nothing and
\* sends nothing, and from its read to its end letzter_inhalt and
\* error_count stay as they are.
C20_UnchangedDoesNothing ==
    [][/\ (Entscheidung /\ aktueller_inhalt = letzter_inhalt) =>
              /\ KeineSucheKeinSenden
              /\ UNCHANGED letzter_inhalt /\ pc' = "warten"
       /\ (pc = "lesen" /\ pc' = "verarbeiten") => UNCHANGED <<letzter_inhalt, error_count>>
       /\ (pc = "warten" /\ pc' # "warten") => UNCHANGED <<letzter_inhalt, error_count>>
      ]_vars

\* C20 witness: the text read is the one recorded as seen, and the iteration
\* is at its wait with nothing searched and nothing sent.
C20_Witness ==
    /\ pc = "warten" /\ weg = "-" /\ sendpc = "idle" /\ suchtext = <<>>
    /\ aktueller_inhalt = T_zzz /\ letzter_inhalt = T_zzz

(***************************************************************************)
(* Properties of the receiver thread (under ServerSpec)                    *)
(***************************************************************************)

\* The last value emitted on connection_status is b.
LetzterStatus(b) == status # <<>> /\ status[Len(status)] = b

\* C21: a listening server whose accept loop failed while the server is
\* running starts again only after a wait, and the restart counts toward
\* the ceiling: when it creates its next socket, it has slept since it
\* listened and retry_count is at least 1.
C21_AcceptErrorBacksOff ==
    (spc = "erzeugen" /\ LetzterStatus(TRUE))
        => (retry_count >= 1 /\ wartezeiten # <<>>)

\* The sleeps between the attempts of the current run of failed starts:
\* the last four, before the sleep that qa_overlay_gnome.py makes after the
\* last failure as well.
WartenZwischenVersuchen ==
    LET n == Len(wartezeiten)
    IN  IF overlay = "gnome" THEN SubSeq(wartezeiten, n - 4, n - 1)
        ELSE SubSeq(wartezeiten, n - 3, n)

\* Five starts in a row have failed.
FuenfFehlstarts == retry_count = max_server_retries

\* C22: after five failed starts in a row no sixth attempt is made (the
\* thread is never again creating, binding or accepting), the waits between
\* the five attempts were 2, 4, 6 and 8 seconds, the last notification is
\* alive = false, and the thread ends with its socket closed.
C22_FiveFailuresStop ==
    /\ [](FuenfFehlstarts =>
            /\ spc \in {"schlaf", "finally", "kopf", "schluss", "beendet"}
            /\ WartenZwischenVersuchen = <<2, 4, 6, 8>>
            /\ LetzterStatus(FALSE)
            /\ (spc = "beendet" => (offene_sockets = 0 /\ server_socket \in {"None", "zu"})))
    /\ (FuenfFehlstarts ~> (spc = "beendet" /\ LetzterStatus(FALSE) /\ offene_sockets = 0))

C22_Witness ==
    /\ FuenfFehlstarts /\ spc = "beendet" /\ srv_running

\* The trimmed text of the chunk the last recv brought.
Eingabe == Strip(Decode(recv_data.daten))

\* The step of handle_connection that received a chunk.
ChunkBehandelt == spc = "handling" /\ spc' # "handling" /\ recv_data'.art = "daten"

\* What that step emitted on message_received.
Gemeldet == SubSeq(empfangen', Len(empfangen) + 1, Len(empfangen'))

\* C23 as stated: on the trimmed input, CLEAR yields OnMessage(CLEAR, ""),
\* PING yields none, input starting with QUESTION: or ANSWER: yields
\* OnMessage(QUESTION or ANSWER, the text after the prefix), and no other
\* input yields an OnMessage.
C23_ParseAsStated ==
    [][ChunkBehandelt =>
        Gemeldet = (LET n == Eingabe'
                    IN  IF n = T_CLEAR THEN << <<"CLEAR", <<>> >> >>
                        ELSE IF n = T_PING THEN <<>>
                        ELSE IF startswith(n, T_QUESTION_)
                             THEN << <<"QUESTION", Ab(n, Len(T_QUESTION_))>> >>
                        ELSE IF startswith(n, T_ANSWER_)
                             THEN << <<"ANSWER", Ab(n, Len(T_ANSWER_))>> >>
                        ELSE <<>>)]_vars

\* C23, amended: as stated, but the payload is the text after the prefix
\* without its surrounding whitespace, and an input whose payload is then
\* empty yields no OnMessage.
C23_ParseTrimmedPayload ==
    [][ChunkBehandelt =>
        LET n == Eingabe'
            q == Strip(Ab(n, Len(T_QUESTION_)))
            a == Strip(Ab(n, Len(T_ANSWER_)))
        IN  /\ n = T_CLEAR => Gemeldet = << <<"CLEAR", <<>> >> >>
            /\ n = T_PING => Gemeldet = <<>>
            /\ (startswith(n, T_QUESTION_) /\ q # <<>>) => Gemeldet = << <<"QUESTION", q>> >>
            /\ (startswith(n, T_ANSWER_) /\ a # <<>>) => Gemeldet = << <<"ANSWER", a>> >>
            /\ (startswith(n, T_QUESTION_) /\ q = <<>>) => Gemeldet = <<>>
            /\ (startswith(n, T_ANSWER_) /\ a = <<>>) => Gemeldet = <<>>
            /\ (n # T_CLEAR /\ ~startswith(n, T_QUESTION_) /\ ~startswith(n, T_ANSWER_))
                   => Gemeldet = <<>>]_vars

\* A QUESTION with a blank before its payload was received and forwarded
\* without the blank.
C23_Witness ==
    /\ recv_data.art = "daten"
    /\ recv_data.daten = T_QUESTION_ \o <<" ">> \o T_abc
    /\ empfangen # <<>>
    /\ empfangen[Len(empfangen)] = <<"QUESTION", T_abc>>

\* A text that is none of the protocol's messages.
Unbekannt(n) ==
    /\ n # T_CLEAR /\ n # T_PING
    /\ ~startswith(n, T_QUESTION_) /\ ~startswith(n, T_ANSWER_)

\* C24: handling a chunk with an unrecognized message emits nothing on
\* message_received and nothing on connection_status, leaves the listening
\* socket and the retry counter alone, closes the connection and goes on
\* with the accept loop.
C24_UnknownDropped ==
    [][(ChunkBehandelt /\ Unbekannt(Eingabe')) =>
        /\ empfangen' = empfangen
        /\ status' = status
        /\ server_socket' = server_socket
        /\ retry_count' = retry_count
        /\ conn' = 0 /\ geschlossen' = geschlossen + 1
        /\ spc' = "accept_kopf"]_vars

\* An unknown text was received by a listening server, which is back in its
\* accept loop with nothing emitted but the emit(True) of its start.
C24_Witness ==
    /\ recv_data.art = "daten" /\ recv_data.daten = T_abc
    /\ spc = "accept" /\ server_socket = "lauscht" /\ srv_running
    /\ empfangen = <<>> /\ status = <<TRUE>>

\* C25: every accepted connection but the one being handled is closed, a
\* connection is open exactly while the thread is in handle_connection (so
\* the next accept comes after the close and no two connections are handled
\* at a time), and there was at most one recv and at most one
\* message_received emission per accepted connection.
C25_OneMessagePerConnection ==
    /\ angenommen - geschlossen = (IF spc = "handling" THEN 1 ELSE 0)
    /\ (conn # 0) = (spc = "handling")
    /\ conn # 0 => conn = angenommen
    /\ gelesen = geschlossen
    /\ Len(empfangen) <= gelesen

\* The second connection is being handled after the first one brought a
\* message and was closed.
C25_Witness ==
    spc = "handling" /\ angenommen = 2 /\ geschlossen = 1 /\ Len(empfangen) = 1

(***************************************************************************)
(* Properties of test_connection (under PingSpec)                          *)
(***************************************************************************)

\* C26: after a call of test_connection error_count has the value it had
\* before the call, whether the probe succeeded or failed, and
\* connection_alive is True exactly when the probe succeeded.
C26_ProbeKeepsErrorCount ==
    letzter_ausgang # "-" =>
        /\ error_count = fehler_vor
        /\ connection_alive = (letzter_ausgang = "ok")
        /\ rueckgabe = connection_alive

\* The second probe failed with three errors counted before it.
C26_Witness ==
    letzter_ausgang = "fehler" /\ fehler_vor = 3 /\ ~connection_alive /\ versuche = 2

(***************************************************************************)
(* Properties of the three sends in a row (under SzenarioSpec)             *)
(***************************************************************************)

\* C27: with a receiver that listens throughout, every one of the sends
\* CLEAR, QUESTION:abc, ANSWER:1 returns True after one connection, and
\* after the three connection_alive is True and error_count is 0, whatever
\* they were before.
C27_ScenarioD ==
    server_socket = "lauscht" =>
        /\ sendpc = "ret" => (rueckgabe /\ versuche = 1 /\ schlaf = <<>>)
        /\ ei >= 1 => (connection_alive /\ error_count = 0)
        /\ ei = 3 => /\ gesendet = SzenarioNachrichten
                     /\ clear_erg = "True" /\ question_erg = "True" /\ antwort_ja

C27_Witness ==
    /\ server_socket = "lauscht" /\ ei = 3 /\ sendpc = "idle"
    /\ gesendet = <<T_CLEAR, T_QUESTION_ \o T_abc, T_ANSWER_ \o T_1>>
    /\ connection_alive /\ error_count = 0

(***************************************************************************)
(* Properties of the watch loop's no-match branch (under Spec)             *)
(***************************************************************************)

\* The kinds of the messages sent so far for the snippet.
GesendeteArten ==
    [i \in 1..Len(gesendet) |->
        IF gesendet[i] = T_CLEAR THEN "CLEAR"
        ELSE IF startswith(gesendet[i], T_QUESTION_) THEN "QUESTION"
        ELSE IF startswith(gesendet[i], T_ANSWER_) THEN "ANSWER"
        ELSE "?"]

\* C28: in both variants the sends of the no-match branch are, in this
\* order, a CLEAR, a QUESTION and an ANSWER: at every moment a prefix of
\* the three, and all three once the branch is through after a CLEAR that
\* was delivered.
C28_NoMatchConversation ==
    weg = "nm" =>
        /\ IstPraefix(GesendeteArten, <<"CLEAR", "QUESTION", "ANSWER">>)
        /\ (pc = "warten" /\ clear_erg = "True")
               => GesendeteArten = <<"CLEAR", "QUESTION", "ANSWER">>

(***************************************************************************)
(* Properties of normalisiere_text (under NormSpec)                        *)
(***************************************************************************)

\* C29: normalising the result of a normalisation gives that result again,
\* and a value that is no str is normalised to the empty string.
C29_NormalizeIdempotent ==
    pc = "normalisiert" =>
        /\ letzter_inhalt = suchtext
        /\ aktueller_inhalt.typ # "str" => suchtext = <<>>

\* A text with capitals and whitespace runs that normalisation changes.
C29_Witness ==
    /\ pc = "normalisiert"
    /\ aktueller_inhalt = PyStr(<<"B", " ", " ", " ", "a">>)
    /\ suchtext = <<"b", " ", "a">> /\ letzter_inhalt = <<"b", " ", "a">>

(***************************************************************************)
(* Properties of the matcher's final step (under MatchSpec)                *)
(***************************************************************************)

\* Two candidates have the same score.
ScoreGleich(x, y) == x.num * y.den = y.num * x.den

\* The place of the i-th produced candidate in a stable descending order:
\* behind every candidate with a greater score and behind the earlier
\* candidates with the same score.
Rang(i) ==
    1 + Cardinality({j \in 1..Len(erzeugt) : ScoreGroesser(erzeugt[j], erzeugt[i])})
      + Cardinality({j \in 1..(i - 1) : ScoreGleich(erzeugt[j], erzeugt[i])})

\* C30: the result is the first 5 of the produced candidates in descending
\* score order with equal scores in discovery order, and the exact and the
\* substring tier discover in corpus order.
C30_StableTopFive ==
    pc = "gesucht" =>
        /\ Len(kandidaten) = Len(erzeugt)
        /\ \A i \in 1..Len(erzeugt) : kandidaten[Rang(i)] = erzeugt[i]
        /\ gefundene = [k \in 1..Min(5, Len(kandidaten)) |-> kandidaten[k].e]
        /\ "fuzzy" \notin stufen =>
               \A p, q \in 1..Len(erzeugt) : p < q => erzeugt[p].e < erzeugt[q].e

\* The substring tier produced a lower score before a higher one and two
\* equal scores, so the sort moved candidates and kept a tie in place.
C30_Witness ==
    /\ pc = "gesucht"
    /\ \E p, q \in 1..Len(erzeugt) : p < q /\ ScoreGroesser(erzeugt[q], erzeugt[p])
    /\ \E p, q \in 1..Len(erzeugt) : p < q /\ ScoreGleich(erzeugt[p], erzeugt[q])
    /\ kandidaten # erzeugt


(***************************************************************************)
(* Properties of the ANSWER sends of a conversation                        *)
(***************************************************************************)

\* The ANSWER messages candidate number k of gefundene contributes: one with
\* its answer when it has that key, else one for each of the first three of
\* its answers.
AntwortSends(k) ==
    LET eintrag == fragen[gefundene[k]]
    IN  IF eintrag.hasAnswer THEN <<T_ANSWER_ \o <<">", " ">> \o eintrag.answer>>
        ELSE IF eintrag.hasAnswers
             THEN [j \in 1..(IF Len(eintrag.answers) < 3 THEN Len(eintrag.answers) ELSE 3) |->
                      T_ANSWER_ \o <<">", " ">> \o eintrag.answers[j]]
             ELSE <<>>

\* The ANSWER messages of the first n candidates, in order.
AntwortSendsBis(n) ==
    LET F[k \in 0..n] == IF k = 0 THEN <<>> ELSE F[k - 1] \o AntwortSends(k)
    IN  F[n]

\* The sends of the conversation after its CLEAR and its QUESTION.
AnswerTeil == SubSeq(gesendet, 3, Len(gesendet))

\* The conversation got past its QUESTION send and returned.
SchleifeDurchlaufen ==
    /\ weg = "conv" /\ pc = "warten" /\ conv_rueckgabe # "-"
    /\ clear_erg = "True"
    /\ variante = "gnome" \/ question_erg = "True"

\* C31: in sende_antworten each candidate, in order, contributes one ANSWER
\* send with its answer when it has one (its answers are then not sent), and
\* otherwise one ANSWER send for each of the first three of its answers, in
\* order; a conversation makes at most 15 ANSWER sends for at most 5
\* candidates.
C31_AnswerSendsPerCandidate ==
    /\ (weg = "conv" /\ pc = "conv_schleife" /\ ai = 1) =>
           AnswerTeil = AntwortSendsBis(ei - 1)
    /\ SchleifeDurchlaufen => AnswerTeil = AntwortSendsBis(Len(gefundene))
    /\ weg = "conv" => Len(gefundene) <= 5 /\ Len(AnswerTeil) <= 15

\* C31 witness: a conversation for five candidates with three and four
\* answers each has made 15 ANSWER sends and returned.
C31_Witness ==
    /\ SchleifeDurchlaufen
    /\ Len(gefundene) = 5 /\ Len(AnswerTeil) = 15
    /\ \E k \in 1..5 : Len(fragen[gefundene[k]].answers) = 4

\* C31 witness for candidates of every shape: one with an answer and
\* answers has contributed its answer only.
C31_WitnessAnswerFirst ==
    /\ SchleifeDurchlaufen
    /\ \E k \in 1..Len(gefundene) :
           /\ fragen[gefundene[k]].hasAnswer /\ fragen[gefundene[k]].hasAnswers
           /\ AntwortSends(k) = <<T_ANSWER_ \o <<">", " ">> \o fragen[gefundene[k]].answer>>

\* An ANSWER send of the conversation has returned False.
AntwortFehlgeschlagen ==
    weg = "conv" /\ pc = "conv_antwort" /\ sendpc = "ret" /\ ~rueckgabe

\* C32: a failed ANSWER send does not end the conversation: it has added 1
\* to error_count, is not counted as sent, the loop goes on with the next
\* answer, and a conversation in which ANSWER sends failed has still
\* attempted every ANSWER send of its candidates.
C32_FailedAnswerSkipped ==
    /\ [](AntwortFehlgeschlagen => error_count = fehler_vor + 1 /\ conv_rueckgabe = "-")
    /\ [][(AntwortFehlgeschlagen /\ pc' # pc) =>
              /\ pc' = "conv_schleife"
              /\ conv_rueckgabe' = "-"
              /\ antwort_count' = antwort_count
              /\ error_count' = error_count
              /\ gesendet' = gesendet
              /\ <<ei', ai'>> = IF fragen[gefundene[ei]].hasAnswer
                                THEN <<ei + 1, 1>> ELSE <<ei, ai + 1>>]_vars
    /\ []((SchleifeDurchlaufen /\ antwort_count < Len(AnswerTeil)) =>
              AnswerTeil = AntwortSendsBis(Len(gefundene)))

\* C32 witness: the first ANSWER send of a conversation failed, a later one
\* went through, and the conversation returned True after all 15 sends.
C32_Witness ==
    /\ SchleifeDurchlaufen /\ conv_rueckgabe = "True"
    /\ Len(AnswerTeil) = 15 /\ antwort_count = 1 /\ error_count = 0

(***************************************************************************)
(* Properties of the loop's error handling                                 *)
(***************************************************************************)

\* C33: an iteration that finds error_count >= max_errors at its test goes
\* to the 30 s wait; when the wait ends without shutdown error_count is 0 and
\* the loop goes on; with shutdown signalled the wait ends with the loop's
\* exit and error_count is left as it was.  The wait always ends: the loop
\* gets from it to the clipboard read of a normal iteration, whatever the
\* connection attempts give, or to its exit.
C33_BreakerPause ==
    /\ [][(pc = "breaker" /\ pc' # pc) =>
              pc' = (IF error_count >= max_errors THEN "pause" ELSE "lesen")]_vars
    /\ [][(pc = "pause" /\ pc' # pc) =>
              IF shutdown_event
              THEN pc' = "zurueck" /\ error_count' = error_count
              ELSE pc' = "schleife" /\ error_count' = 0]_vars
    /\ [](pc = "pause" => error_count >= max_errors)
    /\ (pc = "pause") ~> (pc = "zurueck" \/ pc = "lesen")

\* C33 witness: the loop is in its 30 s wait with the receiver unreachable
\* and no shutdown signalled.
C33_Witness ==
    pc = "pause" /\ error_count >= max_errors /\ ~connection_alive /\ ~shutdown_event

\* C34: an exception that reaches the loop's `except Exception` does not end
\* the loop: the handler adds exactly 1 to error_count, leaves letzter_inhalt
\* and the loop's flags as they are and waits (1 s, ended early by
\* shutdown); after the wait the loop goes to its test for the next
\* iteration, and leaves only if shutdown was signalled.
C34_ExceptionKeepsLoop ==
    /\ [][(pc \in FehlerStellen /\ pc' = "fehlerpause") =>
              /\ error_count' = error_count + 1
              /\ letzter_inhalt' = letzter_inhalt
              /\ running' = running /\ shutdown_event' = shutdown_event]_vars
    /\ [][(pc = "fehlerpause" /\ pc' # pc) =>
              /\ pc' = (IF shutdown_event THEN "zurueck" ELSE "schleife")
              /\ error_count' = error_count
              /\ letzter_inhalt' = letzter_inhalt]_vars
    /\ [][(pc = "schleife" /\ running /\ ~shutdown_event /\ pc' # pc) => pc' = "pruefen"]_vars

\* C34 witness: an exception was raised in an iteration after a text had
\* been recorded as seen; the loop is in the handler's wait, no shutdown
\* signalled.
C34_Witness ==
    pc = "fehlerpause" /\ error_count >= 1 /\ letzter_inhalt # <<>> /\ ~shutdown_event

(***************************************************************************)
(* Further properties of the matcher                                       *)
(***************************************************************************)

\* The search ran the substring tier and that tier produced the candidates.
TeilstringErgebnis ==
    pc = "gesucht" /\ "teilstring" \in stufen /\ "fuzzy" \notin stufen

\* C35: every candidate of the substring tier has a score above 0 and below
\* 80: the tier runs only when no normalised question equals the normalised
\* text, so the shorter of the two lengths is less than the longer for every
\* pair it scores, and an entry whose normalised question is empty is not
\* scored.
C35_SubstringScoreRange ==
    /\ (pc = "gesucht" /\ "teilstring" \in stufen) =>
           \A i \in 1..Len(fragen) :
               fragen[i].isDict =>
                   normalisiere_text(FrageVon(fragen[i])) # normalisiere_text(suchtext)
    /\ TeilstringErgebnis =>
           \A k \in 1..Len(erzeugt) :
               LET fn == normalisiere_text(FrageVon(fragen[erzeugt[k].e]))
                   sn == normalisiere_text(suchtext)
                   kurz == IF Len(fn) < Len(sn) THEN Len(fn) ELSE Len(sn)
                   lang == IF Len(fn) < Len(sn) THEN Len(sn) ELSE Len(fn)
               IN  /\ fn # <<>>
                   /\ kurz < lang
                   /\ erzeugt[k].num * lang = 80 * kurz * erzeugt[k].den
                   /\ erzeugt[k].num > 0
                   /\ erzeugt[k].num < 80 * erzeugt[k].den

\* C35 witness: the substring tier scored an entry of a corpus that also
\* holds a dict whose question is blank, which it did not score.
C35_Witness ==
    /\ TeilstringErgebnis /\ erzeugt # <<>>
    /\ \E i \in 1..Len(fragen) :
           /\ fragen[i].isDict /\ normalisiere_text(FrageVon(fragen[i])) = <<>>
           /\ \A k \in 1..Len(erzeugt) : erzeugt[k].e # i

(***************************************************************************)
(* Properties of validiere_frage (under ValidSpec)                         *)
(***************************************************************************)

\* The record has key k and its value is a string that is not blank.
HatText(e, k) ==
    /\ k \in e.schluessel
    /\ LET v == IF k = "question" THEN e.question ELSE e.answer
       IN  v.typ = "str" /\ \E n \in 1..Len(v.text) : ~IsSpace(v.text[n])

\* The record's answers are a non-empty list of strings that are not blank.
HatAntwortListe(e) ==
    /\ "answers" \in e.schluessel
    /\ e.answers.typ = "list"
    /\ e.answers.liste # <<>>
    /\ \A j \in 1..Len(e.answers.liste) :
           /\ e.answers.liste[j].typ = "str"
           /\ \E n \in 1..Len(e.answers.liste[j].text) : ~IsSpace(e.answers.liste[j].text[n])

\* C36: validiere_frage returns True exactly when the record is a dict, its
\* question is a string that is not empty after stripping, and it has a
\* usable answer: an answer that is such a string, or answers that are a
\* non-empty list of such strings.  In every other case it returns False.
C36_ValidateIff ==
    pc = "validiert" =>
        (rueckgabe <=>
            /\ quelle.data.typ = "dict"
            /\ HatText(quelle.data, "question")
            /\ HatText(quelle.data, "answer") \/ HatAntwortListe(quelle.data))

\* C36 witness: a dict whose answer is blank and whose answers are a list of
\* usable strings was accepted.
C36_Witness ==
    /\ pc = "validiert" /\ rueckgabe
    /\ "answer" \in quelle.data.schluessel /\ ~HatText(quelle.data, "answer")
    /\ HatAntwortListe(quelle.data)

\* C36, rejected records: one whose answers hold a value that is no string
\* was rejected although its question is usable.
C36_WitnessRejected ==
    /\ pc = "validiert" /\ ~rueckgabe
    /\ HatText(quelle.data, "question")
    /\ "answers" \in quelle.data.schluessel /\ quelle.data.answers.typ = "list"
    /\ \E j \in 1..Len(quelle.data.answers.liste) : quelle.data.answers.liste[j].typ = "int"


\* ---------------------------------------------------------------------------
\* The watcher and the receiver over the listening socket
\* ---------------------------------------------------------------------------
\* sende_nachricht_robust opens one connection per message; connect() returns
\* once the connection is established with the listening socket, where it
\* waits until the receiver thread's accept() takes it.

\* The receiver's accept() takes the number n of the waiting connections:
\* the one that was established first.
NaechsteVerbindungLetzte(q) == Len(q)

NaechsteVerbindung(q) == 1

OhneVerbindung(q, n) == SubSeq(q, 1, n - 1) \o SubSeq(q, n + 1, Len(q))

NetzInit ==
    /\ variante \in {"x11", "gnome"}
    /\ clipboard_tool = (IF variante = "x11" THEN "-" ELSE "xclip")
    /\ quelle = [kind |-> "list", data |-> <<>>]
    /\ fragen = <<>>
    /\ letzter_inhalt = <<>>
    /\ running = TRUE
    /\ shutdown_event = FALSE
    /\ connection_alive = TRUE
    /\ error_count = 0
    /\ pc = "senden"
    /\ aktueller_inhalt = <<>>
    /\ lesung = "-"
    /\ InitMatch /\ InitSend /\ InitConv
    /\ overlay \in {"x11", "gnome"}
    /\ InitReceiver

\* One attempt of sende_nachricht_robust: connect() and sendall() can go
\* through only while the receiver listens, and then the connection waits at
\* the listening socket with the message.
NetzVerbindung ==
    /\ sendpc = "connect"
    /\ \E ausgang \in Ausgaenge :
        /\ ausgang = "ok" => server_socket = "lauscht"
        /\ letzter_ausgang' = (IF ausgang = "ok" THEN "ok" ELSE "fehler")
        /\ versuche' = versuche + 1
        /\ IF ausgang = "ok"
           THEN /\ backlog' = Append(backlog, nachricht)
                /\ connection_alive' = TRUE
                /\ error_count' = ErfolgFehlerzahl(error_count)
                /\ rueckgabe' = TRUE
                /\ sendpc' = "ret"
           ELSE IF WeitererVersuch(attempt, max_retries)
           THEN /\ connection_alive' = IF ausgang = "refused" THEN FALSE
                                       ELSE connection_alive
                /\ sendpc' = "backoff"
                /\ UNCHANGED <<error_count, rueckgabe, backlog>>
           ELSE /\ error_count' = ErschoepftFehlerzahl(error_count, max_retries)
                /\ connection_alive' = FALSE
                /\ rueckgabe' = FALSE
                /\ sendpc' = "ret"
                /\ UNCHANGED backlog
    /\ UNCHANGED <<nachricht, max_retries, attempt, schlaf, fehler_vor>>
    /\ UNCHANGED <<finderVars, matchVars, convVars, overlay, spc, srv_running,
                   server_socket, retry_count, wartezeiten, status, empfangen, conn,
                   angenommen, geschlossen, gelesen, recv_data, accept_fehler,
                   offene_sockets, stoppc, eingang>>

\* self.server_socket.accept(): a waiting connection, the timeout of 2 s, or
\* a socket error that ends the accept loop.
NetzAccept ==
    /\ spc = "accept"
    /\ server_socket = "lauscht"
    /\ \/ /\ backlog # <<>>
          /\ eingang' = backlog[NaechsteVerbindung(backlog)]
          /\ backlog' = OhneVerbindung(backlog, NaechsteVerbindung(backlog))
          /\ conn' = angenommen + 1
          /\ angenommen' = angenommen + 1
          /\ spc' = "handling"
          /\ UNCHANGED accept_fehler
       \/ /\ backlog = <<>>
          /\ spc' = "accept_kopf"
          /\ UNCHANGED <<conn, angenommen, accept_fehler, netzVars>>
       \/ /\ accept_fehler < MaxAcceptFehler
          /\ accept_fehler' = accept_fehler + 1
          /\ spc' = NachAcceptFehler
          /\ UNCHANGED <<conn, angenommen, netzVars>>
    /\ UNCHANGED <<finderVars, healthVars, matchVars, sendVars, convVars, overlay,
                   srv_running, server_socket, retry_count, wartezeiten, status,
                   empfangen, geschlossen, gelesen, recv_data, offene_sockets, stoppc>>

\* What conn.recv(1024) can bring on a connection that carries the message m.
NetzLesungen(m) ==
    {[art |-> "daten", daten |-> m], [art |-> "timeout", daten |-> <<>>],
     [art |-> "fehler", daten |-> <<>>]}

\* handle_connection(conn, addr) on the accepted connection.
NetzHandle ==
    /\ spc = "handling"
    /\ \E l \in NetzLesungen(eingang) :
        /\ gelesen' = gelesen + 1
        /\ recv_data' = l
        /\ empfangen' = IF l.art = "daten"
                        THEN empfangen \o verarbeite_nachricht_sicher(Decode(l.daten))
                        ELSE empfangen
        /\ spc' = NachVerbindung(l)
    /\ geschlossen' = Schliessen(geschlossen)
    /\ conn' = 0
    /\ eingang' = <<>>
    /\ UNCHANGED <<finderVars, healthVars, matchVars, sendVars, convVars, overlay,
                   srv_running, server_socket, retry_count, wartezeiten, status,
                   angenommen, accept_fehler, offene_sockets, stoppc, backlog>>

\* The finally clause: cleanup_socket() closes the listening socket, and the
\* connections that still wait there are gone.
NetzFinally ==
    /\ spc \in {"finally", "finally_break"}
    /\ cleanup_socket
    /\ backlog' = <<>>
    /\ spc' = IF spc = "finally" THEN "kopf" ELSE "schluss"
    /\ UNCHANGED <<finderVars, healthVars, matchVars, sendVars, convVars, overlay,
                   srv_running, retry_count, wartezeiten, status, empfangen, conn,
                   angenommen, geschlossen, gelesen, recv_data, accept_fehler,
                   stoppc, eingang>>

\* A step of the watcher: the messages of one conversation, one send after
\* the other.
NetzSenderSchritt ==
    \/ SzenarioAufruf \/ SendeEintritt \/ NetzVerbindung \/ Backoff
    \/ SzenarioRueckkehr

\* A step of the receiver thread.
NetzEmpfaengerSchritt ==
    \/ Run \/ AeussererKopf \/ Erzeugen \/ Binden \/ SchlafEnde \/ AcceptKopf
    \/ NetzAccept \/ NetzHandle \/ NetzFinally \/ Schluss

NetzNext == NetzSenderSchritt \/ NetzEmpfaengerSchritt

NetzSpec == NetzInit /\ [][NetzNext]_vars

\* ---------------------------------------------------------------------------
\* Properties of the order of delivery (under NetzSpec)
\* ---------------------------------------------------------------------------

\* What the receiver emits for the text t.
Emittiert(t) == verarbeite_nachricht_sicher(Decode(t))

\* The sends of gesendet[1..n] that returned True, in the order of the
\* sends, as the receiver emits them.
RECURSIVE ErfolgreichGesendet(_)
ErfolgreichGesendet(n) ==
    IF n = 0 THEN <<>>
    ELSE ErfolgreichGesendet(n - 1) \o
         (IF \/ n = 1 /\ clear_erg = "True"
             \/ n = 2 /\ question_erg = "True"
             \/ n = 3 /\ antwort_ja
             \/ n = Len(gesendet) /\ sendpc = "ret" /\ rueckgabe
          THEN Emittiert(gesendet[n]) ELSE <<>>)

\* s is t with some elements left out.
RECURSIVE IstTeilfolge(_, _)
IstTeilfolge(s, t) ==
    IF s = <<>> THEN TRUE
    ELSE IF t = <<>> THEN FALSE
    ELSE IF Head(s) = Head(t) THEN IstTeilfolge(Tail(s), Tail(t))
    ELSE IstTeilfolge(s, Tail(t))

\* C37: what the receiver has emitted on message_received is, in this
\* order, a selection of the messages whose send returned True, in the
\* order of the sends; in particular no ANSWER is emitted before the CLEAR
\* of its conversation.
C37_DeliveryInSendOrder ==
    /\ IstTeilfolge(empfangen, ErfolgreichGesendet(Len(gesendet)))
    /\ \A i, j \in 1..Len(empfangen) :
        (empfangen[i][1] = "ANSWER" /\ empfangen[j][1] = "CLEAR") => j < i

\* All three messages of the conversation were delivered, and the receiver
\* had been restarted after an accept error before.
C37_Witness ==
    /\ empfangen = ErfolgreichGesendet(3)
    /\ Len(empfangen) = 3
    /\ accept_fehler > 0

\* Two connections waited at the listening socket at once.
C37_WitnessWarteschlange ==
    /\ Len(backlog) = 2
    /\ spc = "accept"


\* ---------------------------------------------------------------------------
\* Properties of stop() (under ServerFairSpec)
\* ---------------------------------------------------------------------------

\* stop() was called.
StopGerufen == stoppc # "-"

\* The receiver thread has left start_server_robust.
ThreadBeendet == spc = "beendet"

\* C38: once stop() was called, wherever the receiver thread is, the thread
\* terminates; when it has terminated, no socket that it created is still
\* open (none listens) and the last value it emitted on connection_status
\* is False; nothing is emitted after that.
C38_StopTerminates ==
    /\ StopGerufen ~> ThreadBeendet
    /\ [](ThreadBeendet => /\ server_socket # "lauscht"
                           /\ offene_sockets = 0
                           /\ LetzterStatus(FALSE))
    /\ [][ThreadBeendet => (ThreadBeendet' /\ status' = status)]_vars

\* stop() has run to its end, the thread had accepted connections and
\* listened, and it has terminated.
C38_Witness ==
    /\ ThreadBeendet
    /\ stoppc = "fertig"
    /\ angenommen > 0
    /\ geschlossen = angenommen
    /\ Len(status) >= 2


\* ---------------------------------------------------------------------------
\* Invalid records and the matcher (under MatchSpec)
\* ---------------------------------------------------------------------------

\* The list fr without the records validiere_frage rejects.
GueltigeEintraege(fr) == SelectSeq(fr, validiere_frage)

\* The entries of fr a result names, in the result's order.
Zurueckgegeben(fr, erg) == [k \in 1..Len(erg) |-> fr[erg[k]]]

\* C39: finde_passende_fragen_robust returns for the stored list the same
\* sequence of entries as for that list without its invalid records.
C39_InvalidRecordsIgnored ==
    pc = "gesucht" =>
        \E g \in {GueltigeEintraege(fragen)} :
            Zurueckgegeben(fragen, gefundene) =
                Zurueckgegeben(g, finde_passende_fragen_robust(g, suchtext).ergebnis)


\* ---------------------------------------------------------------------------
\* Failures while a connection is handled (under ServerSpec)
\* ---------------------------------------------------------------------------

\* The read of the connection just handled brought no message: a timeout,
\* an error, an empty read, or bytes that decode or parse to nothing.
LesungOhneNachricht(l) ==
    l.art # "daten" \/ verarbeite_nachricht_sicher(Decode(l.daten)) = <<>>

\* C40: the step that handles a connection, whatever its read brought,
\* returns to the head of the accept loop, emits no connection status and
\* leaves the listening socket, the retry count and the count of ended
\* accept loops as they are; from there the thread calls accept() again
\* unless stop() cleared self.running; and as long as stop() was not called
\* the socket of the accept loop listens.
C40_HandlingFailureKeepsListening ==
    /\ [][(spc = "handling" /\ spc' # spc) =>
              /\ spc' = "accept_kopf"
              /\ status' = status
              /\ server_socket' = server_socket
              /\ offene_sockets' = offene_sockets
              /\ retry_count' = retry_count
              /\ accept_fehler' = accept_fehler
              /\ wartezeiten' = wartezeiten]_vars
    /\ [][(spc = "accept_kopf" /\ spc' # spc /\ srv_running) => spc' = "accept"]_vars
    /\ []((spc \in {"accept_kopf", "accept", "handling"} /\ stoppc = "-")
              => server_socket = "lauscht" /\ LetzterStatus(TRUE))

\* The read of the first connection failed, and the second connection was
\* accepted on the same socket: no accept loop ended, no status but the
\* True of the start was emitted.
C40_Witness ==
    /\ spc = "handling"
    /\ angenommen = 2
    /\ gelesen = 1
    /\ LesungOhneNachricht(recv_data)
    /\ recv_data.art = "fehler"
    /\ accept_fehler = 0
    /\ status = <<TRUE>>
    /\ stoppc = "-"

=============================================================================
